---- MODULE Spec2Model ----
(***************************************************************************)
(* A model of the fused layer-normalisation GPU operator of                *)
(* src/operator/nn/layer_norm.cu: the host entry points                     *)
(* LayerNormCompute<gpu> / LayerNormGradCompute<gpu>, the launchers         *)
(* LayerNormGPUContig / LayerNormGradGPUContig and the three kernels.       *)
(*                                                                         *)
(* DType is modelled by exact arithmetic: a rational is a pair <<n, d>>     *)
(* in lowest terms with d > 0; the result of sqrt is a triple <<a, b, v>>   *)
(* of rationals standing for a + b / sqrt(v).  Rounding is not modelled.    *)
(* Device memory is a map from buffer names to 0-based arrays; a pointer    *)
(* is a buffer name or NULL.                                                *)
(***************************************************************************)
EXTENDS Integers, Sequences, FiniteSets, TLC

(* ------------------------------ bounds --------------------------------- *)
\* the largest number of rows (product of the leading dimensions) explored
MaxBatch == 2

\* the longest sequence of values fed to the statistics helpers on their own
MaxLen == 3

\* the most values in one of the partitions that are merged
MaxPart == 2

(* ------------------------- exact arithmetic ---------------------------- *)
\* the function f itself, with its values computed once instead of at each use
Force(f) == LET g == f IN IF g = g THEN g ELSE g

\* the value e, computed after its operands a and b: an operator that starts
\* from computed operands keeps the evaluation of a long chain of operations flat
Eager(a, b, e) == IF a = a /\ b = b THEN e ELSE e

RECURSIVE GCD(_, _)
GCD(a, b) == IF b = 0 THEN a ELSE GCD(b, a % b)

Abs(a) == IF a < 0 THEN -a ELSE a

\* the rational n/d (d # 0) in lowest terms with a positive denominator
Norm(n, d) ==
  LET g == GCD(Abs(n), Abs(d))
      s == IF d < 0 THEN -1 ELSE 1
  IN  <<(s * n) \div g, (s * d) \div g>>

R(i) == <<i, 1>>

RAdd(p, q) ==
  Eager(p, q, LET g == GCD(p[2], q[2])
              IN  Norm(p[1] * (q[2] \div g) + q[1] * (p[2] \div g), (p[2] \div g) * q[2]))

RNeg(p) == <<-p[1], p[2]>>

RSub(p, q) == Eager(p, q, RAdd(p, RNeg(q)))

RMul(p, q) ==
  Eager(p, q, LET g1 == GCD(Abs(p[1]), q[2])
                  g2 == GCD(Abs(q[1]), p[2])
              IN  <<(p[1] \div g1) * (q[1] \div g2), (p[2] \div g2) * (q[2] \div g1)>>)

\* q # 0
RDiv(p, q) == Eager(p, q, RMul(p, IF q[1] < 0 THEN <<-q[2], -q[1]>> ELSE <<q[2], q[1]>>))

RPos(p) == p[1] > 0

RECURSIVE ISqrtIn(_, _, _)
\* the largest k in lo .. hi with k * k <= n, for lo * lo <= n
ISqrtIn(n, lo, hi) ==
  IF lo >= hi THEN lo
  ELSE LET mid == (lo + hi + 1) \div 2
       IN  IF mid * mid <= n THEN ISqrtIn(n, mid, hi) ELSE ISqrtIn(n, lo, mid - 1)

\* the integer square root of n >= 0 (46340 is the largest root of a 32-bit integer)
ISqrt(n) == ISqrtIn(n, 0, IF n < 46340 THEN n ELSE 46340)

IsSquare(n) == n >= 0 /\ ISqrt(n) * ISqrt(n) = n

\* a value a + b / sqrt(v); b = 0 is written with v = 1
Surd(a, b, v) == Eager(a, b, IF b = R(0) THEN <<a, R(0), R(1)>> ELSE <<a, b, v>>)

SOfR(q) == Surd(q, R(0), R(1))

\* sqrt(q) for q > 0: exact when q is a square, else q / sqrt(q)
Sqrt(q) ==
  Eager(q, q, IF IsSquare(q[1]) /\ IsSquare(q[2])
              THEN SOfR(<<ISqrt(q[1]), ISqrt(q[2])>>)
              ELSE Surd(R(0), q, q))

\* 1 / s for a rational s # 0 or a pure surd s = b / sqrt(v)
SInv(s) ==
  Eager(s, s, IF s[2] = R(0) THEN SOfR(RDiv(R(1), s[1]))
              ELSE IF s[1] = R(0) THEN Surd(R(0), RDiv(s[3], s[2]), s[3])
              ELSE CHOOSE x \in {} : TRUE)

\* r * s and s + r for a rational r
SScale(r, s) == Eager(r, s, Surd(RMul(r, s[1]), RMul(r, s[2]), s[3]))

SAddR(s, r) == Eager(s, r, Surd(RAdd(s[1], r), s[2], s[3]))

\* the rational a buffer element s holds (saved statistics handed to backward)
RatOf(s) == IF s[2] = R(0) THEN s[1] ELSE CHOOSE x \in {} : TRUE

RECURSIVE SumOf(_, _, _)
\* f[lo] + ... + f[hi - 1]
SumOf(f, lo, hi) == IF lo >= hi THEN R(0) ELSE RAdd(f[lo], SumOf(f, lo + 1, hi))

(* ------------------ device code: statistics helpers -------------------- *)
\* a running triple (mean, sigma2, count) held in a lane's registers
ZeroTriple == [mean |-> R(0), sigma2 |-> R(0), count |-> R(0)]

\* StepWelfordOnlineSum with `sigma2 += delta * delta`
StepWelfordOnlineSum_OldMean(curr, t) ==
  Eager(curr, t,
        LET count == RAdd(t.count, R(1))
            delta == RSub(curr, t.mean)
        IN  [mean   |-> RAdd(t.mean, RDiv(delta, count)),
             sigma2 |-> RAdd(t.sigma2, RMul(delta, delta)),
             count  |-> count])

\* StepWelfordOnlineSum(curr, mean, sigma2, count): the triple t after curr
StepWelfordOnlineSum(curr, t) ==
  Eager(curr, t,
        LET count == RAdd(t.count, R(1))
            delta == RSub(curr, t.mean)
            mean  == RAdd(t.mean, RDiv(delta, count))
        IN  [mean   |-> mean,
             sigma2 |-> RAdd(t.sigma2, RMul(delta, RSub(curr, mean))),
             count  |-> count])

\* ChanMergePartition without the term for the distance of the two means
ChanMergePartition_NoDelta(lhs, rhs) ==
  Eager(lhs, rhs,
        LET rhs_count == RAdd(lhs.count, rhs.count)
        IN  IF RPos(rhs_count)
            THEN LET nA == RDiv(lhs.count, rhs_count)
                     nB == RDiv(rhs.count, rhs_count)
                 IN  [mean   |-> RAdd(RMul(nA, lhs.mean), RMul(nB, rhs.mean)),
                      sigma2 |-> RAdd(rhs.sigma2, lhs.sigma2),
                      count  |-> rhs_count]
            ELSE [mean |-> R(0), sigma2 |-> R(0), count |-> rhs_count])

\* ChanMergePartition with the plain average of the two means
ChanMergePartition_PlainAverage(lhs, rhs) ==
  Eager(lhs, rhs,
        LET delta     == RSub(rhs.mean, lhs.mean)
            rhs_count == RAdd(lhs.count, rhs.count)
        IN  IF RPos(rhs_count)
            THEN LET nA == RDiv(lhs.count, rhs_count)
                     nB == RDiv(rhs.count, rhs_count)
                 IN  [mean   |-> RDiv(RAdd(lhs.mean, rhs.mean), R(2)),
                      sigma2 |-> RAdd(RAdd(rhs.sigma2, lhs.sigma2),
                                      RMul(RMul(RMul(RMul(delta, delta), nA), nB), rhs_count)),
                      count  |-> rhs_count]
            ELSE [mean |-> R(0), sigma2 |-> R(0), count |-> rhs_count])

\* ChanMergePartition with `delta * delta * nA * rhs_count`
ChanMergePartition_LhsWeight(lhs, rhs) ==
  Eager(lhs, rhs,
        LET delta     == RSub(rhs.mean, lhs.mean)
            rhs_count == RAdd(lhs.count, rhs.count)
        IN  IF RPos(rhs_count)
            THEN LET nA == RDiv(lhs.count, rhs_count)
                     nB == RDiv(rhs.count, rhs_count)
                 IN  [mean   |-> RAdd(RMul(nA, lhs.mean), RMul(nB, rhs.mean)),
                      sigma2 |-> RAdd(RAdd(rhs.sigma2, lhs.sigma2),
                                      RMul(RMul(RMul(delta, delta), nA), rhs_count)),
                      count  |-> rhs_count]
            ELSE [mean |-> R(0), sigma2 |-> R(0), count |-> rhs_count])

\* ChanMergePartition(lhs_mean, lhs_sigma2, lhs_count, rhs_mean, rhs_sigma2,
\* rhs_count): merges lhs into rhs and returns the new rhs
ChanMergePartition(lhs, rhs) ==
  Eager(lhs, rhs,
        LET delta     == RSub(rhs.mean, lhs.mean)
            rhs_count == RAdd(lhs.count, rhs.count)
        IN  IF RPos(rhs_count)
            THEN LET nA == RDiv(lhs.count, rhs_count)
                     nB == RDiv(rhs.count, rhs_count)
                 IN  [mean   |-> RAdd(RMul(nA, lhs.mean), RMul(nB, rhs.mean)),
                      sigma2 |-> RAdd(RAdd(rhs.sigma2, lhs.sigma2),
                                      RMul(RMul(RMul(RMul(delta, delta), nA), nB), rhs_count)),
                      count  |-> rhs_count]
            ELSE [mean |-> R(0), sigma2 |-> R(0), count |-> rhs_count])

RECURSIVE WelfordMainLoop(_, _, _, _, _)
\* the first loop of BlockWelfordOnlineSum from position l: <<final l, triple>>
WelfordMainLoop(l, nthread, col_vals, nchannel, t) ==
  Eager(l, t,
        IF l + 3 < nchannel
        THEN LET t1 == StepWelfordOnlineSum(col_vals[l], t)
                 t2 == StepWelfordOnlineSum(col_vals[l + 1], t1)
                 t3 == StepWelfordOnlineSum(col_vals[l + 2], t2)
                 t4 == StepWelfordOnlineSum(col_vals[l + 3], t3)
             IN  WelfordMainLoop(l + 4 * nthread, nthread, col_vals, nchannel, t4)
        ELSE <<l, t>>)

RECURSIVE WelfordTailLoop(_, _, _, _)
WelfordTailLoop(l, col_vals, nchannel, t) ==
  Eager(l, t,
        IF l < nchannel
        THEN WelfordTailLoop(l + 1, col_vals, nchannel, StepWelfordOnlineSum(col_vals[l], t))
        ELSE t)

\* BlockWelfordOnlineSum with l starting at tid
BlockWelfordOnlineSum_StartAtTid(tid, nthread, col_vals, nchannel, t) ==
  LET m == WelfordMainLoop(tid, nthread, col_vals, nchannel, t)
  IN  WelfordTailLoop(m[1], col_vals, nchannel, m[2])

BlockWelfordOnlineSum(tid, nthread, col_vals, nchannel, t) ==
  LET m == WelfordMainLoop(4 * tid, nthread, col_vals, nchannel, t)
  IN  WelfordTailLoop(m[1], col_vals, nchannel, m[2])

(* ---------------------- device code: forward kernel -------------------- *)
NULL == "NULL"

\* blockDim.x of every launch
WarpSize == 32

\* threadIdx.x and threadIdx.y of the lane tid = threadIdx.x + threadIdx.y * blockDim.x
ThreadIdxX(tid) == tid % WarpSize

ThreadIdxY(tid) == tid \div WarpSize

\* the lane WARP_SHFL(value, src_lane) reads: lane src_lane of the caller's warp
ShflLane(tid, src_lane) == ThreadIdxY(tid) * WarpSize + src_lane

\* the row of block bid: col_vals = in_data + bid * nchannel
RowOf(m, ptr, bid, nchannel) ==
  Force([c \in 0 .. nchannel - 1 |-> m[ptr][bid * nchannel + c]])

\* lines 160-168: every lane's triple after BlockWelfordOnlineSum
ForwardAccumulate(m, a, bid, nthread) ==
  LET col_vals == RowOf(m, a.in_data, bid, a.nchannel)
  IN  Eager(col_vals, nthread,
            Force([tid \in 0 .. nthread - 1 |->
                     BlockWelfordOnlineSum(tid, nthread, col_vals, a.nchannel, ZeroTriple)]))

\* ForwardWarpRound with the shifts 1, 2, 3, 4, 5
ForwardWarpRound_LinearShift(regs, l, nthread) ==
  Force([tid \in 0 .. nthread - 1 |->
           LET src_lane == (ThreadIdxX(tid) + l + 1) % 32
           IN  ChanMergePartition(regs[ShflLane(tid, src_lane)], regs[tid])])

\* lines 176-180: round l of the intra-warp merge, all lanes in lock-step
ForwardWarpRound(regs, l, nthread) ==
  Force([tid \in 0 .. nthread - 1 |->
           LET src_lane == (ThreadIdxX(tid) + 2 ^ l) % 32
           IN  ChanMergePartition(regs[ShflLane(tid, src_lane)], regs[tid])])

\* lines 183-184: blockDim.y = 1, every lane takes lane 0's mean and variance
ForwardShflBroadcast(regs, nchannel, nthread) ==
  Force([tid \in 0 .. nthread - 1 |->
           [mean   |-> regs[ShflLane(tid, 0)].mean,
            sigma2 |-> RDiv(regs[ShflLane(tid, 0)].sigma2, R(nchannel)),
            count  |-> regs[tid].count]])

\* element offsets of mean_buf, sigma2_buf and count_buf in the shared buffer
MeanBufAt(bdimy) == 0

Sigma2BufAt(bdimy) == bdimy \div 2

CountBufAt(bdimy) == bdimy

\* dynamic shared memory of nshared elements, not yet written
SharedBuf(nshared) == Force([i \in 0 .. nshared - 1 |-> "uninit"])

\* lines 192-197: the lanes with threadIdx.x = 0 of the upper half store their triple
ForwardStoreUpper(regs, buf, offset, bdimy) ==
  LET src(idx) == regs[(idx + offset) * WarpSize]
      inRange(idx) == idx >= 0 /\ idx < offset /\ idx + offset < bdimy
      b1 == Force([i \in DOMAIN buf |->
               IF inRange(i - MeanBufAt(bdimy)) THEN src(i - MeanBufAt(bdimy)).mean ELSE buf[i]])
      b2 == Force([i \in DOMAIN buf |->
               IF inRange(i - Sigma2BufAt(bdimy)) THEN src(i - Sigma2BufAt(bdimy)).sigma2 ELSE b1[i]])
  IN  Force([i \in DOMAIN buf |->
         IF inRange(i - CountBufAt(bdimy)) THEN src(i - CountBufAt(bdimy)).count ELSE b2[i]])

\* ForwardMergeLower whose lanes take the stored triple instead of merging it
ForwardMergeLower_TakeStored(regs, buf, offset, bdimy, nthread) ==
  Force([tid \in 0 .. nthread - 1 |->
     IF ThreadIdxX(tid) = 0 /\ ThreadIdxY(tid) < offset
     THEN [mean   |-> buf[MeanBufAt(bdimy) + ThreadIdxY(tid)],
           sigma2 |-> buf[Sigma2BufAt(bdimy) + ThreadIdxY(tid)],
           count  |-> buf[CountBufAt(bdimy) + ThreadIdxY(tid)]]
     ELSE regs[tid]])

\* ForwardMergeLower whose merging lanes keep the count they had
ForwardMergeLower_KeepCount(regs, buf, offset, bdimy, nthread) ==
  Force([tid \in 0 .. nthread - 1 |->
     IF ThreadIdxX(tid) = 0 /\ ThreadIdxY(tid) < offset
     THEN [ChanMergePartition([mean   |-> buf[MeanBufAt(bdimy) + ThreadIdxY(tid)],
                               sigma2 |-> buf[Sigma2BufAt(bdimy) + ThreadIdxY(tid)],
                               count  |-> buf[CountBufAt(bdimy) + ThreadIdxY(tid)]],
                              regs[tid])
           EXCEPT !.count = regs[tid].count]
     ELSE regs[tid]])

\* lines 199-203: the lanes with threadIdx.x = 0 of the lower half merge what was stored
ForwardMergeLower(regs, buf, offset, bdimy, nthread) ==
  Force([tid \in 0 .. nthread - 1 |->
     IF ThreadIdxX(tid) = 0 /\ ThreadIdxY(tid) < offset
     THEN ChanMergePartition([mean   |-> buf[MeanBufAt(bdimy) + ThreadIdxY(tid)],
                              sigma2 |-> buf[Sigma2BufAt(bdimy) + ThreadIdxY(tid)],
                              count  |-> buf[CountBufAt(bdimy) + ThreadIdxY(tid)]],
                             regs[tid])
     ELSE regs[tid]])

\* lines 207-210: lane (0, 0) stores the aggregate to slot 0
ForwardBroadcastStore(regs, buf, bdimy) ==
  Force([i \in DOMAIN buf |->
           IF i = Sigma2BufAt(bdimy) THEN regs[0].sigma2
           ELSE IF i = MeanBufAt(bdimy) THEN regs[0].mean
           ELSE buf[i]])

\* lines 212-213: every lane reads slot 0 back
ForwardBroadcastLoad(regs, buf, nchannel, bdimy, nthread) ==
  Force([tid \in 0 .. nthread - 1 |->
           [mean   |-> buf[MeanBufAt(bdimy)],
            sigma2 |-> RDiv(buf[Sigma2BufAt(bdimy)], R(nchannel)),
            count  |-> regs[tid].count]])

\* StridedLanes with the lanes striding by the warp instead of the block
StridedLanes_WarpStride(i, nthread) ==
  {tid \in 0 .. nthread - 1 : tid <= i /\ (i - tid) % WarpSize = 0}

\* the lanes whose loop `for (i = tid; i < nchannel; i += nthread)` reaches i
StridedLanes(i, nthread) ==
  {tid \in 0 .. nthread - 1 : tid <= i /\ (i - tid) % nthread = 0}

\* ForwardOutVal whose specialisation without gamma and beta does not centre
ForwardOutVal_NoCentre(m, a, st, bid, i) ==
  LET invstd_eps == SInv(Sqrt(RAdd(st.sigma2, a.eps)))
      centred    == RSub(m[a.in_data][bid * a.nchannel + i], st.mean)
  IN  IF a.gamma # NULL /\ a.beta # NULL
      THEN SAddR(SScale(RMul(m[a.gamma][i], centred), invstd_eps), m[a.beta][i])
      ELSE IF a.gamma = NULL /\ a.beta # NULL
      THEN SAddR(SScale(centred, invstd_eps), m[a.beta][i])
      ELSE IF a.gamma # NULL /\ a.beta = NULL
      THEN SScale(RMul(m[a.gamma][i], centred), invstd_eps)
      ELSE SScale(m[a.in_data][bid * a.nchannel + i], invstd_eps)

\* lines 216-236: the value a lane with statistics st stores to out_col_val[i]
ForwardOutVal(m, a, st, bid, i) ==
  LET invstd_eps == SInv(Sqrt(RAdd(st.sigma2, a.eps)))
      centred    == RSub(m[a.in_data][bid * a.nchannel + i], st.mean)
  IN  IF a.gamma # NULL /\ a.beta # NULL
      THEN SAddR(SScale(RMul(m[a.gamma][i], centred), invstd_eps), m[a.beta][i])
      ELSE IF a.gamma = NULL /\ a.beta # NULL
      THEN SAddR(SScale(centred, invstd_eps), m[a.beta][i])
      ELSE IF a.gamma # NULL /\ a.beta = NULL
      THEN SScale(RMul(m[a.gamma][i], centred), invstd_eps)
      ELSE SScale(centred, invstd_eps)

\* StatLanes with the first lane of every lane-group
StatLanes_EveryGroup(nthread) ==
  {tid \in 0 .. nthread - 1 : ThreadIdxX(tid) = 0}

\* line 238: the lanes with threadIdx.x == 0 && threadIdx.y == 0
StatLanes(nthread) ==
  {tid \in 0 .. nthread - 1 : ThreadIdxX(tid) = 0 /\ ThreadIdxY(tid) = 0}

\* ForwardWrite that saves sqrt(sigma2) as the standard deviation
ForwardWrite_NoEps(m, a, regs, bid, nthread) ==
  LET out == Force([j \in DOMAIN m[a.out_data] |->
                LET i == j - bid * a.nchannel
                IN  IF i >= 0 /\ i < a.nchannel /\ StridedLanes(i, nthread) # {}
                    THEN ForwardOutVal(m, a, regs[CHOOSE w \in StridedLanes(i, nthread) : TRUE],
                                       bid, i)
                    ELSE m[a.out_data][j]])
      m1 == [m EXCEPT ![a.out_data] = out]
      st == regs[CHOOSE w \in StatLanes(nthread) : TRUE]
      m2 == [m1 EXCEPT ![a.mean_data] = [@ EXCEPT ![bid] = st.mean]]
  IN  [m2 EXCEPT ![a.std_data] = [@ EXCEPT ![bid] = Sqrt(st.sigma2)]]

\* lines 216-241: the memory after the lanes of block bid stored their results
ForwardWrite(m, a, regs, bid, nthread) ==
  LET out == Force([j \in DOMAIN m[a.out_data] |->
                LET i == j - bid * a.nchannel
                IN  IF i >= 0 /\ i < a.nchannel /\ StridedLanes(i, nthread) # {}
                    THEN ForwardOutVal(m, a, regs[CHOOSE w \in StridedLanes(i, nthread) : TRUE],
                                       bid, i)
                    ELSE m[a.out_data][j]])
      m1 == [m EXCEPT ![a.out_data] = out]
      st == regs[CHOOSE w \in StatLanes(nthread) : TRUE]
      m2 == [m1 EXCEPT ![a.mean_data] = [@ EXCEPT ![bid] = st.mean]]
  IN  [m2 EXCEPT ![a.std_data] = [@ EXCEPT ![bid] = Sqrt(RAdd(st.sigma2, a.eps))]]

\* the number of stores ForwardWrite makes to each element, added to w
ForwardStores(w, a, bid, nthread) ==
  LET w1 == [w EXCEPT ![a.out_data] =
               [j \in DOMAIN @ |->
                  LET i == j - bid * a.nchannel
                  IN  IF i >= 0 /\ i < a.nchannel
                      THEN @[j] + Cardinality(StridedLanes(i, nthread))
                      ELSE @[j]]]
      w2 == [w1 EXCEPT ![a.mean_data] = [@ EXCEPT ![bid] = @ + Cardinality(StatLanes(nthread))]]
  IN  [w2 EXCEPT ![a.std_data] = [@ EXCEPT ![bid] = @ + Cardinality(StatLanes(nthread))]]

RECURSIVE ForwardWarpRounds(_, _, _)
\* lines 175-181: the rounds l .. 4 of the intra-warp merge
ForwardWarpRounds(regs, l, nthread) ==
  Eager(regs, l, IF l <= 4
                 THEN ForwardWarpRounds(ForwardWarpRound(regs, l, nthread), l + 1, nthread)
                 ELSE regs)

RECURSIVE ForwardHalving(_, _, _, _, _)
\* lines 191-205: the inter-warp halving loop from `offset` on
ForwardHalving(regs, buf, offset, bdimy, nthread) ==
  Eager(regs, buf,
        IF offset > 0
        THEN LET stored == ForwardStoreUpper(regs, buf, offset, bdimy)
             IN  ForwardHalving(ForwardMergeLower(regs, stored, offset, bdimy, nthread), stored,
                                offset \div 2, bdimy, nthread)
        ELSE [regs |-> regs, buf |-> buf])

\* lines 164-242: the memory after block bid of a launch with block shape bdim
\* and nshared elements of shared memory has run from start to end
ForwardBlock(m, a, bid, bdim, nshared) ==
  LET nthread == bdim[1] * bdim[2]
      merged  == ForwardWarpRounds(ForwardAccumulate(m, a, bid, nthread), 0, nthread)
      halved  == ForwardHalving(merged, SharedBuf(nshared), bdim[2] \div 2, bdim[2], nthread)
      stats   == IF bdim[2] = 1 THEN ForwardShflBroadcast(merged, a.nchannel, nthread)
                 ELSE ForwardBroadcastLoad(halved.regs,
                                           ForwardBroadcastStore(halved.regs, halved.buf, bdim[2]),
                                           a.nchannel, bdim[2], nthread)
  IN  Eager(m, merged, Eager(halved, stats, ForwardWrite(m, a, stats, bid, nthread)))

(* --------------- device code: the parameter-gradient kernel ------------ *)
LOAD_UNROLL == 4

\* the values a read of memory the program does not own is explored with
Garbage == {R(1), <<-3, 2>>}

\* arr[i] as a lane reads it: a read beyond the buffer is undefined and yields g
ReadAt(arr, i, g) == IF i \in DOMAIN arr THEN arr[i] ELSE g

RECURSIVE UnrolledStarts(_, _, _)
\* the values of l for which `for (; l + LOAD_UNROLL - 1 < nchannel; l += stride)`
\* runs its body, from l on
UnrolledStarts(l, stride, nchannel) ==
  IF l + LOAD_UNROLL - 1 < nchannel
  THEN {l} \cup UnrolledStarts(l + stride, stride, nchannel)
  ELSE {}

RECURSIVE UnrolledEnd(_, _, _)
\* the value of l when that loop ends
UnrolledEnd(l, stride, nchannel) ==
  IF l + LOAD_UNROLL - 1 < nchannel THEN UnrolledEnd(l + stride, stride, nchannel) ELSE l

\* the channels l + i lane tid handles in the unrolled loop of lines 339-379
GammaBetaUnrolled(tid, nthread, nchannel) ==
  UNION {{l + i : i \in 0 .. LOAD_UNROLL - 1} :
           l \in UnrolledStarts(LOAD_UNROLL * tid, LOAD_UNROLL * nthread, nchannel)}

\* the channels lane tid handles in the loop of lines 381-414
GammaBetaTail(tid, nthread, nchannel) ==
  UnrolledEnd(LOAD_UNROLL * tid, LOAD_UNROLL * nthread, nchannel) .. nchannel - 1

RECURSIVE GammaBetaSum(_, _, _, _, _, _)
\* lines 353-365 / 386-395 for channel c from row b on: <<local_gamma_grad,
\* local_beta_grad>> added to acc, with the lane's local_mean and local_std
GammaBetaSum(m, a, c, b, local, acc) ==
  Eager(b, acc,
        IF b < a.nbatch
        THEN LET ele_og == m[a.out_grad][b * a.nchannel + c]
                 ele_x  == m[a.in_data][b * a.nchannel + c]
             IN  GammaBetaSum(m, a, c, b + 1, local,
                              <<RAdd(acc[1], RMul(RDiv(RSub(ele_x, local[1]), local[2]), ele_og)),
                                RAdd(acc[2], ele_og)>>)
        ELSE acc)

\* lines 343-344 / 382-383: local_mean = mean_data[l], local_std = std_data[l],
\* l being the channel
GammaBetaLocal(m, a, c, g) ==
  <<ReadAt(m[a.mean_data], c, g), RatOf(ReadAt(m[a.std_data], c, SOfR(g)))>>

\* the lanes that handle channel c in the unrolled loop, and in the last loop
UnrolledLanes(c, nthread, nchannel) ==
  {tid \in 0 .. nthread - 1 : c \in GammaBetaUnrolled(tid, nthread, nchannel)}

TailLanes(c, nthread, nchannel) ==
  {tid \in 0 .. nthread - 1 : c \in GammaBetaTail(tid, nthread, nchannel)}

\* channel -> <<its lanes of the unrolled loop, its lanes of the last loop>>
GammaBetaLanes(nthread, nchannel) ==
  Force([c \in 0 .. nchannel - 1 |->
           <<UnrolledLanes(c, nthread, nchannel), TailLanes(c, nthread, nchannel)>>])

\* lines 366-378 and 396-413: the buffer `old` one gradient pointer addresses
\* after the lanes stored; `which` is 1 for gamma_grad and 2 for beta_grad,
\* `skip` the value of no_gamma / no_beta, sums[c] the pair of local sums
GammaBetaStore(old, which, addto, skip, sums, lanes) ==
  Force([c \in DOMAIN old |->
           IF c \in DOMAIN lanes /\ lanes[c][1] # {}
           THEN IF addto THEN RAdd(old[c], sums[c][which]) ELSE old[c]
           ELSE IF c \in DOMAIN lanes /\ lanes[c][2] # {} /\ ~skip
           THEN IF addto THEN RAdd(old[c], sums[c][which]) ELSE sums[c][which]
           ELSE old[c]])

\* the number of stores of GammaBetaStore to each element, added to w
GammaBetaStoreCount(w, addto, skip, lanes) ==
  Force([c \in DOMAIN w |->
           IF c \in DOMAIN lanes
           THEN w[c] + (IF addto THEN Cardinality(lanes[c][1]) ELSE 0)
                     + (IF skip THEN 0 ELSE Cardinality(lanes[c][2]))
           ELSE w[c]])

\* lines 329-415: the memory after the one block of the kernel has run; la is
\* the launch, no_gamma and no_beta the values of the identifiers of lines 396
\* and 405, which the kernel does not declare
GammaBetaBlock(m, la, lanes, no_gamma, no_beta, g) ==
  LET a       == la.args
      sums    == Force([c \in 0 .. a.nchannel - 1 |->
                          GammaBetaSum(m, a, c, 0, GammaBetaLocal(m, a, c, g), <<R(0), R(0)>>)])
      m1      == IF a.gamma_grad # NULL
                 THEN [m EXCEPT ![a.gamma_grad] =
                         GammaBetaStore(@, 1, la.addto.gamma, no_gamma, sums, lanes)]
                 ELSE m
  IN  Eager(sums, m1,
            IF a.beta_grad # NULL
            THEN [m1 EXCEPT ![a.beta_grad] =
                    GammaBetaStore(@, 2, la.addto.beta, no_beta, sums, lanes)]
            ELSE m1)

\* the stores of GammaBetaBlock, counted
GammaBetaStores(w, la, lanes, no_gamma, no_beta) ==
  LET a       == la.args
      w1      == IF a.gamma_grad # NULL
                 THEN [w EXCEPT ![a.gamma_grad] =
                         GammaBetaStoreCount(@, la.addto.gamma, no_gamma, lanes)]
                 ELSE w
  IN  IF a.beta_grad # NULL
      THEN [w1 EXCEPT ![a.beta_grad] =
              GammaBetaStoreCount(@, la.addto.beta, no_beta, lanes)]
      ELSE w1

(* ----------------- device code: the data-gradient kernel --------------- *)
\* line 430: int tid = threadIdx.x, for the lane threadIdx.x + 32 * threadIdx.y
DataTid(lane) == ThreadIdxX(lane)

\* lines 441-445 / 449-453: the two sums s after channel l has been added
DataAdd(m, a, bid, l, mean, invstd_eps, s) ==
  Eager(l, s,
        LET ele_og    == m[a.out_grad][bid * a.nchannel + l]
            ele_x     == m[a.in_data][bid * a.nchannel + l]
            ele_gamma == m[a.gamma][l]
            og_gamma  == RMul(ele_og, ele_gamma)
        IN  <<RAdd(s[1], RMul(og_gamma, invstd_eps)),
              RAdd(s[2], RMul(RMul(RMul(og_gamma, RSub(ele_x, mean)), invstd_eps), invstd_eps))>>)

RECURSIVE DataMainLoop(_, _, _, _, _, _, _, _)
\* lines 438-447 from position l: <<final l, sums>>
DataMainLoop(l, nthread, m, a, bid, mean, invstd_eps, s) ==
  Eager(l, s,
        IF l + LOAD_UNROLL - 1 < a.nchannel
        THEN LET s1 == DataAdd(m, a, bid, l, mean, invstd_eps, s)
                 s2 == DataAdd(m, a, bid, l + 1, mean, invstd_eps, s1)
                 s3 == DataAdd(m, a, bid, l + 2, mean, invstd_eps, s2)
                 s4 == DataAdd(m, a, bid, l + 3, mean, invstd_eps, s3)
             IN  DataMainLoop(l + nthread * LOAD_UNROLL, nthread, m, a, bid, mean, invstd_eps, s4)
        ELSE <<l, s>>)

RECURSIVE DataTailLoop(_, _, _, _, _, _, _)
\* lines 448-454
DataTailLoop(l, m, a, bid, mean, invstd_eps, s) ==
  Eager(l, s,
        IF l < a.nchannel
        THEN DataTailLoop(l + 1, m, a, bid, mean, invstd_eps,
                          DataAdd(m, a, bid, l, mean, invstd_eps, s))
        ELSE s)

\* line 435: DType mean = mean_data[bid]
DataMeanOf(m, a, bid) == m[a.mean_data][bid]

\* line 436: DType invstd_eps = DType(1) / std_data[bid]
DataInvStd(m, a, bid) == RDiv(R(1), RatOf(m[a.std_data][bid]))

\* lines 433-454: <<sum_val0, sum_val1>> of every lane before the reductions
DataAccumulate(m, a, bid, nthread) ==
  LET mean       == DataMeanOf(m, a, bid)
      invstd_eps == DataInvStd(m, a, bid)
  IN  Eager(mean, invstd_eps,
            Force([lane \in 0 .. nthread - 1 |->
                     LET ml == DataMainLoop(LOAD_UNROLL * DataTid(lane), nthread, m, a, bid,
                                            mean, invstd_eps, <<R(0), R(0)>>)
                     IN  DataTailLoop(ml[1], m, a, bid, mean, invstd_eps, ml[2])]))

\* threadIdx.x ^ mask for a power of two mask
XorMask(x, mask) == IF (x \div mask) % 2 = 0 THEN x + mask ELSE x - mask

\* lines 457-458: one round of the butterfly, all lanes in lock-step
DataXorRound(regs, mask, nthread) ==
  Eager(regs, mask,
        Force([lane \in 0 .. nthread - 1 |->
                 LET src == regs[ShflLane(lane, XorMask(ThreadIdxX(lane), mask))]
                 IN  <<RAdd(regs[lane][1], src[1]), RAdd(regs[lane][2], src[2])>>]))

\* lines 462-463: the element offsets of sum_val0_buf and sum_val1_buf
Sum0BufAt(bdim) == 0

Sum1BufAt(bdim) == (bdim[2] \div 2) * bdim[1]

\* lines 465-469: the upper half of the warps stores; a store beyond the
\* shared memory of the launch does not reach the buffer
DataStoreUpper(regs, buf, offset, bdim) ==
  LET lane(idx) == ((idx \div bdim[1]) + offset) * bdim[1] + (idx % bdim[1])
      inRange(idx) == idx >= 0 /\ idx < offset * bdim[1] /\ (idx \div bdim[1]) + offset < bdim[2]
      b1 == Force([i \in DOMAIN buf |->
               IF inRange(i - Sum0BufAt(bdim)) THEN regs[lane(i - Sum0BufAt(bdim))][1]
               ELSE buf[i]])
  IN  Eager(regs, b1,
            Force([i \in DOMAIN buf |->
                     IF inRange(i - Sum1BufAt(bdim)) THEN regs[lane(i - Sum1BufAt(bdim))][2]
                     ELSE b1[i]]))

\* lines 471-475: the lower half adds what was stored
DataMergeLower(regs, buf, offset, bdim, g) ==
  Eager(regs, buf,
        Force([lane \in DOMAIN regs |->
                 IF ThreadIdxY(lane) < offset
                 THEN LET idx == ThreadIdxY(lane) * bdim[1] + ThreadIdxX(lane)
                      IN  <<RAdd(regs[lane][1], ReadAt(buf, Sum0BufAt(bdim) + idx, g)),
                            RAdd(regs[lane][2], ReadAt(buf, Sum1BufAt(bdim) + idx, g))>>
                 ELSE regs[lane]]))

\* lines 478-481: the warp threadIdx.y = 0 stores its sums
DataBroadcastStore(regs, buf, bdim) ==
  LET b1 == Force([i \in DOMAIN buf |->
               IF i - Sum0BufAt(bdim) \in 0 .. bdim[1] - 1 THEN regs[i - Sum0BufAt(bdim)][1]
               ELSE buf[i]])
  IN  Eager(regs, b1,
            Force([i \in DOMAIN buf |->
                     IF i - Sum1BufAt(bdim) \in 0 .. bdim[1] - 1
                     THEN regs[i - Sum1BufAt(bdim)][2]
                     ELSE b1[i]]))

\* lines 483-486: the other warps load them
DataBroadcastLoad(regs, buf, bdim, g) ==
  Eager(regs, buf,
        Force([lane \in DOMAIN regs |->
                 IF ThreadIdxY(lane) # 0
                 THEN <<ReadAt(buf, Sum0BufAt(bdim) + ThreadIdxX(lane), g),
                        ReadAt(buf, Sum1BufAt(bdim) + ThreadIdxX(lane), g)>>
                 ELSE regs[lane]]))

\* lines 488-489: sum_val0 /= nchannel; sum_val1 /= nchannel
DataMean(regs, nchannel) ==
  Eager(regs, nchannel,
        Force([lane \in DOMAIN regs |->
                 <<RDiv(regs[lane][1], R(nchannel)), RDiv(regs[lane][2], R(nchannel))>>]))

\* lines 497-498: the gradient a lane with sums st computes for channel l
DataGradVal(m, a, st, bid, l) ==
  LET ele_out_grad == m[a.out_grad][bid * a.nchannel + l]
      ele_x        == m[a.in_data][bid * a.nchannel + l]
      invstd_eps   == DataInvStd(m, a, bid)
  IN  RSub(RSub(RMul(RMul(ele_out_grad, m[a.gamma][l]), invstd_eps), st[1]),
           RMul(RMul(RSub(ele_x, DataMeanOf(m, a, bid)), invstd_eps), st[2]))

\* line 492: `for (int l = tid; l < nchannel; l += nthread)` reaches channel l
\* in the lane whose tid is x
DataWriteReaches(x, l, nthread, nchannel) ==
  l < nchannel /\ l >= x /\ (l - x) % nthread = 0

\* the lanes of lane-group y that reach channel l in the loop of line 492
DataWriters(l, y, nthread, nchannel) ==
  {lane \in y * WarpSize .. y * WarpSize + WarpSize - 1 :
     DataWriteReaches(DataTid(lane), l, nthread, nchannel)}

\* DataWarpStore with the lanes storing to data_grad[l]
DataWarpStore_NoRowOffset(m, la, regs, bid, y, ld) ==
  LET a       == la.args
      nthread == la.blockDim[1] * la.blockDim[2]
  IN  [m EXCEPT ![a.data_grad] =
         Force([l \in DOMAIN @ |->
                  IF l < a.nchannel /\ DataWriters(l, y, nthread, a.nchannel) # {}
                  THEN LET lane == CHOOSE w \in DataWriters(l, y, nthread, a.nchannel) : TRUE
                           v    == DataGradVal(m, a, regs[lane], bid, l)
                       IN  IF la.addto.data THEN RAdd(ld[l], v) ELSE v
                  ELSE @[l]])]

\* lines 492-504: data_grad after the lanes of warp y stored; `ld` holds what
\* they loaded from data_grad (read for `+=` only)
DataWarpStore(m, la, regs, bid, y, ld) ==
  LET a       == la.args
      nthread == la.blockDim[1] * la.blockDim[2]
  IN  [m EXCEPT ![a.data_grad] =
         Force([j \in DOMAIN @ |->
                  LET l == j - bid * a.nchannel
                  IN  IF l >= 0 /\ l < a.nchannel /\ DataWriters(l, y, nthread, a.nchannel) # {}
                      THEN LET lane == CHOOSE w \in DataWriters(l, y, nthread, a.nchannel) : TRUE
                               v    == DataGradVal(m, a, regs[lane], bid, l)
                           IN  IF la.addto.data THEN RAdd(ld[j], v) ELSE v
                      ELSE @[j]])]

\* the number of stores of DataWarpStore to each element, added to w
DataWarpStores(w, la, bid, y) ==
  LET a       == la.args
      nthread == la.blockDim[1] * la.blockDim[2]
  IN  [w EXCEPT ![a.data_grad] =
         Force([j \in DOMAIN @ |->
                  LET l == j - bid * a.nchannel
                  IN  IF l >= 0 /\ l < a.nchannel
                      THEN @[j] + Cardinality(DataWriters(l, y, nthread, a.nchannel))
                      ELSE @[j]])]

(* ------------------------- host code: forward -------------------------- *)
kNullOp == "kNullOp"

kWriteTo == "kWriteTo"

kWriteInplace == "kWriteInplace"

kAddTo == "kAddTo"

OpReqType == {kNullOp, kWriteTo, kWriteInplace, kAddTo}

\* mshadow::cuda launch limits used to shape the grid
kMaxGridDim == 65535

kBaseGridNum == 1024

RECURSIVE ProdShape(_, _, _)
\* shape_.ProdShape(lo, hi): the product of dimensions lo .. hi - 1 (0-based)
ProdShape(sh, lo, hi) == IF lo >= hi THEN 1 ELSE sh[lo + 1] * ProdShape(sh, lo + 1, hi)

\* blob.dptr<DType>(): NULL for a blob that holds no data
Dptr(m, name) == IF DOMAIN m[name] = {} THEN NULL ELSE name

\* blob.CheckContiguous(), for the set of blobs the caller hands over non-contiguous
CheckContiguous(noncontig, name) == name \notin noncontig

\* GridX that rounds the number of columns of the grid down
GridX_RoundDown(nbatch) ==
  IF nbatch > kMaxGridDim THEN nbatch \div kBaseGridNum ELSE nbatch

GridX(nbatch) ==
  IF nbatch > kMaxGridDim THEN (nbatch + kBaseGridNum - 1) \div kBaseGridNum ELSE nbatch

GridY(nbatch) == IF nbatch > kMaxGridDim THEN kBaseGridNum ELSE 1

Fatal == [status |-> "fatal", trace |-> <<>>, launches |-> <<>>]

\* LayerNormGPUContig: the checks, then the launch on the context's stream
LayerNormGPUContig(sh, m, e, noncontig) ==
  LET in_ndim   == Len(sh)
      nbatch    == ProdShape(sh, 0, in_ndim - 1)
      nchannel  == sh[in_ndim]
      nthread_y == IF nchannel <= 32 THEN 1 ELSE 2
      nshared   == IF nthread_y > 1 THEN nthread_y + nthread_y \div 2 ELSE 0
  IN  IF \E b \in {"in_data", "gamma", "beta", "out_data", "mean_data", "std_data"} :
           ~CheckContiguous(noncontig, b)
      THEN Fatal
      ELSE [status   |-> "returned",
            trace    |-> <<>>,
            launches |-> << [kernel   |-> "LayerNormFusedForwardKernelContig",
                             gridDim  |-> <<GridX(nbatch), GridY(nbatch)>>,
                             blockDim |-> <<WarpSize, nthread_y>>,
                             nshared  |-> nshared,
                             stream   |-> "ctx_stream",
                             args     |-> [nbatch    |-> nbatch,
                                           nchannel  |-> nchannel,
                                           eps       |-> e,
                                           in_data   |-> Dptr(m, "in_data"),
                                           gamma     |-> Dptr(m, "gamma"),
                                           beta      |-> Dptr(m, "beta"),
                                           out_data  |-> Dptr(m, "out_data"),
                                           mean_data |-> Dptr(m, "mean_data"),
                                           std_data  |-> Dptr(m, "std_data")]] >>]

\* a callee's outcome seen from its caller: the callee is entered, then runs
Called(name, o) == [o EXCEPT !.trace = <<name>> \o @]

\* LayerNormCompute<gpu> without CHECK_NE(req[0], kAddTo)
LayerNormCompute_NoAddToCheck(req, param_axis, sh, m, e, noncontig) ==
  LET ndim == Len(sh)
      axis == IF param_axis < 0 THEN param_axis + ndim ELSE param_axis
  IN  IF req[0] = kNullOp THEN [status |-> "returned", trace |-> <<>>, launches |-> <<>>]
      ELSE IF ~(axis >= 0 /\ axis < ndim) THEN Fatal
      ELSE IF axis = ndim - 1
      THEN Called("LayerNormGPUContig", LayerNormGPUContig(sh, m, e, noncontig))
      ELSE [status |-> "returned", trace |-> <<"LayerNormComputeGeneral">>, launches |-> <<>>]

\* LayerNormCompute<gpu> that validates the axis before it tests req[0]
LayerNormCompute_AxisBeforeNullOp(req, param_axis, sh, m, e, noncontig) ==
  LET ndim == Len(sh)
      axis == IF param_axis < 0 THEN param_axis + ndim ELSE param_axis
  IN  IF ~(axis >= 0 /\ axis < ndim) THEN Fatal
      ELSE IF req[0] = kNullOp THEN [status |-> "returned", trace |-> <<>>, launches |-> <<>>]
      ELSE IF req[0] = kAddTo THEN Fatal
      ELSE IF axis = ndim - 1
      THEN Called("LayerNormGPUContig", LayerNormGPUContig(sh, m, e, noncontig))
      ELSE [status |-> "returned", trace |-> <<"LayerNormComputeGeneral">>, launches |-> <<>>]

\* LayerNormCompute<gpu>; req[0] is the only request it reads
LayerNormCompute(req, param_axis, sh, m, e, noncontig) ==
  LET ndim == Len(sh)
      axis == IF param_axis < 0 THEN param_axis + ndim ELSE param_axis
  IN  IF req[0] = kNullOp THEN [status |-> "returned", trace |-> <<>>, launches |-> <<>>]
      ELSE IF req[0] = kAddTo THEN Fatal
      ELSE IF ~(axis >= 0 /\ axis < ndim) THEN Fatal
      ELSE IF axis = ndim - 1
      THEN Called("LayerNormGPUContig", LayerNormGPUContig(sh, m, e, noncontig))
      ELSE [status |-> "returned", trace |-> <<"LayerNormComputeGeneral">>, launches |-> <<>>]

(* ------------------------- host code: backward ------------------------- *)
\* the launch `<<<1, dimBlock, stream>>>` of the parameter-gradient kernel on
\* one block of 32x4: the stream handle h is the third launch parameter, the
\* size of the dynamic shared memory, and no stream is named
GammaBetaLaunch(nbatch, nchannel, m, gamma_req, beta_req, h) ==
  [kernel   |-> "LayerNormFusedBackwardKernel_GammaBeta",
   gridDim  |-> <<1, 1>>,
   blockDim |-> <<WarpSize, 4>>,
   nshared  |-> h,
   stream   |-> "default_stream",
   addto    |-> [gamma |-> gamma_req = kAddTo, beta |-> beta_req = kAddTo],
   args     |-> [nbatch     |-> nbatch,
                 nchannel   |-> nchannel,
                 in_data    |-> Dptr(m, "in_data"),
                 out_grad   |-> Dptr(m, "out_grad"),
                 mean_data  |-> Dptr(m, "mean_data"),
                 std_data   |-> Dptr(m, "std_data"),
                 gamma_grad |-> IF gamma_req # kNullOp THEN Dptr(m, "gamma") ELSE NULL,
                 beta_grad  |-> IF beta_req # kNullOp THEN Dptr(m, "beta") ELSE NULL]]

\* the launch `<<<dimGrid, dimBlock, stream>>>` of the data-gradient kernel
DataLaunch(nbatch, nchannel, m, data_req, h) ==
  [kernel   |-> "LayerNormFusedBackwardKernel_Data",
   gridDim  |-> <<GridX(nbatch), GridY(nbatch)>>,
   blockDim |-> <<WarpSize, IF nchannel <= 32 THEN 1 ELSE 2>>,
   nshared  |-> h,
   stream   |-> "default_stream",
   addto    |-> [data |-> data_req = kAddTo],
   args     |-> [nbatch    |-> nbatch,
                 nchannel  |-> nchannel,
                 in_data   |-> Dptr(m, "in_data"),
                 out_grad  |-> Dptr(m, "out_grad"),
                 mean_data |-> Dptr(m, "mean_data"),
                 std_data  |-> Dptr(m, "std_data"),
                 gamma     |-> Dptr(m, "gamma"),
                 data_grad |-> Dptr(m, "data_grad")]]

\* LayerNormGradGPUContig without CHECK_NE(beta_req, kWriteInplace)
LayerNormGradGPUContig_NoBetaCheck(sh, m, req, noncontig, h) ==
  LET nbatch    == ProdShape(sh, 0, Len(sh) - 1)
      nchannel  == sh[Len(sh)]
      data_req  == req[0]
      gamma_req == req[1]
      beta_req  == req[2]
      params    == IF gamma_req # kNullOp \/ beta_req # kNullOp
                   THEN <<GammaBetaLaunch(nbatch, nchannel, m, gamma_req, beta_req, h)>>
                   ELSE <<>>
  IN  IF \E b \in {"out_grad", "in_data", "gamma", "mean_data", "std_data"} :
           ~CheckContiguous(noncontig, b)
      THEN Fatal
      ELSE IF data_req = kWriteInplace \/ gamma_req = kWriteInplace THEN Fatal
      ELSE IF ~CheckContiguous(noncontig, "gamma_grad") \/ ~CheckContiguous(noncontig, "beta_grad")
      THEN Fatal
      ELSE IF ~CheckContiguous(noncontig, "data_grad")
      THEN [status |-> "fatal", trace |-> <<>>, launches |-> params]
      ELSE [status   |-> "returned",
            trace    |-> <<>>,
            launches |-> params \o (IF data_req # kNullOp
                                    THEN <<DataLaunch(nbatch, nchannel, m, data_req, h)>>
                                    ELSE <<>>)]

\* LayerNormGradGPUContig, statement by statement: the checks of lines 524-541,
\* the launch of the parameter-gradient kernel, the check of line 569, the
\* launch of the data-gradient kernel; h is the value of the stream handle
LayerNormGradGPUContig(sh, m, req, noncontig, h) ==
  LET nbatch    == ProdShape(sh, 0, Len(sh) - 1)
      nchannel  == sh[Len(sh)]
      data_req  == req[0]
      gamma_req == req[1]
      beta_req  == req[2]
      params    == IF gamma_req # kNullOp \/ beta_req # kNullOp
                   THEN <<GammaBetaLaunch(nbatch, nchannel, m, gamma_req, beta_req, h)>>
                   ELSE <<>>
  IN  IF \E b \in {"out_grad", "in_data", "gamma", "mean_data", "std_data"} :
           ~CheckContiguous(noncontig, b)
      THEN Fatal
      ELSE IF data_req = kWriteInplace \/ gamma_req = kWriteInplace
              \/ beta_req = kWriteInplace
      THEN Fatal
      ELSE IF ~CheckContiguous(noncontig, "gamma_grad") \/ ~CheckContiguous(noncontig, "beta_grad")
      THEN Fatal
      ELSE IF ~CheckContiguous(noncontig, "data_grad")
      THEN [status |-> "fatal", trace |-> <<>>, launches |-> params]
      ELSE [status   |-> "returned",
            trace    |-> <<>>,
            launches |-> params \o (IF data_req # kNullOp
                                    THEN <<DataLaunch(nbatch, nchannel, m, data_req, h)>>
                                    ELSE <<>>)]

\* LayerNormGradCompute<gpu> without `if (axis < 0) axis += ndim`
LayerNormGradCompute_NoAxisWrap(req, param_axis, sh, m, noncontig, h) ==
  LET ndim == Len(sh)
      axis == param_axis
  IN  IF req[0] = kNullOp THEN [status |-> "returned", trace |-> <<>>, launches |-> <<>>]
      ELSE IF req[0] = kAddTo THEN Fatal
      ELSE IF ~(axis >= 0 /\ axis < ndim) THEN Fatal
      ELSE IF axis = ndim - 1
      THEN Called("LayerNormGradGPUContig", LayerNormGradGPUContig(sh, m, req, noncontig, h))
      ELSE [status |-> "returned", trace |-> <<"LayerNormGradComputeGeneral">>,
            launches |-> <<>>]

\* LayerNormGradCompute<gpu>
LayerNormGradCompute(req, param_axis, sh, m, noncontig, h) ==
  LET ndim == Len(sh)
      axis == IF param_axis < 0 THEN param_axis + ndim ELSE param_axis
  IN  IF req[0] = kNullOp THEN [status |-> "returned", trace |-> <<>>, launches |-> <<>>]
      ELSE IF req[0] = kAddTo THEN Fatal
      ELSE IF ~(axis >= 0 /\ axis < ndim) THEN Fatal
      ELSE IF axis = ndim - 1
      THEN Called("LayerNormGradGPUContig", LayerNormGradGPUContig(sh, m, req, noncontig, h))
      ELSE [status |-> "returned", trace |-> <<"LayerNormGradComputeGeneral">>,
            launches |-> <<>>]

(* ------------------------------ the state ------------------------------ *)
VARIABLES
  shape,    \* the shape of the data tensor, inputs[0].shape_
  eps,      \* param.eps
  mem,      \* device memory: buffer name -> array
  call,     \* the host call made: entry point and arguments
  status,   \* "idle" before the call, then "returned" or "fatal"
  trace,    \* the functions the call entered after its entry point, in order
  stream,   \* the kernels the call launched, in launch order
  done,     \* the blocks <<k, blockIdx.x, blockIdx.y>> of kernel stream[k] that have run
  blk,      \* the execution group that is running: its position, registers and scratch
  writes    \* buffer name -> number of stores made to each element since the call

vars == <<shape, eps, mem, call, status, trace, stream, done, blk, writes>>

(* --------------------------- problem instances ------------------------- *)
\* channel counts explored by the forward operator
\* one lane-group (nchannel <= 32): tail only, one chunk and a tail, full chunks
SmallChannels == {1, 3, 5, 31, 32}

\* two lane-groups: the second one empty (33, 128), not empty (133), and lanes
\* that take more than one chunk (260)
WideChannels == {33, 128, 133, 260}

\* the (input pattern, eps) pairs explored by the forward operator
ForwardInputs == {<<0, R(1)>>, <<0, <<1, 4>>>>, <<1, <<1, 4>>>>, <<2, R(1)>>}

\* one row as a rank-1 tensor, more rows as a rank-2 tensor; the long rows come
\* with one row and with two
Shapes(channels) ==
  {<<c>> : c \in channels}
    \cup {<<b, c>> : b \in 2 .. MaxBatch, c \in {n \in channels : n <= 2 * WarpSize}}
    \cup {<<2, c>> : c \in {n \in channels : n > 2 * WarpSize}}

\* input values: a ramp (0, 1, 2 / 3, 4, 5 for two rows of three), a constant row,
\* and a pattern with negative values
InVal(p, n, b, c) ==
  IF p = 0 THEN R((b * n + c) % 7)
  ELSE IF p = 1 THEN R(2)
  ELSE R(((c * c + 2 * b + 1) % 5) - 2)

GammaVal(p, c) == R(2 - ((c + p) % 3))

BetaVal(p, c) == R((c % 2) - p)

OutGradVal(p, b, c) == R(((2 * c + b + p) % 4) - 1)

SavedMeanVal(p, b) == Norm(2 * b + 1 + p, 2)

SavedStdVal(p, b) == SOfR(Norm(b + 2, 2))

\* the buffers of a forward call on a tensor of shape sh; the blobs in `nulls`
\* hold no data; the outputs hold what an earlier use left in them
ForwardMemory(sh, p, nulls) ==
  LET n == sh[Len(sh)]
      B == ProdShape(sh, 0, Len(sh) - 1)
      in(i)   == InVal(p, n, i \div n, i % n)
      g(i)    == GammaVal(p, i)
      bt(i)   == BetaVal(p, i)
      pre(i)  == R(p + 3)
      spre(i) == SOfR(R(p + 3))
  IN  [in_data    |-> Force([i \in 0 .. B * n - 1 |-> in(i)]),
       gamma      |-> IF "gamma" \in nulls THEN <<>> ELSE Force([i \in 0 .. n - 1 |-> g(i)]),
       beta       |-> IF "beta" \in nulls THEN <<>> ELSE Force([i \in 0 .. n - 1 |-> bt(i)]),
       out_data   |-> Force([i \in 0 .. B * n - 1 |-> spre(i)]),
       mean_data  |-> Force([i \in 0 .. B - 1 |-> pre(i)]),
       std_data   |-> Force([i \in 0 .. B - 1 |-> spre(i)])]

NoStores(m) == [name \in DOMAIN m |-> [i \in DOMAIN m[name] |-> 0]]

NoCall == [fn |-> "none", req |-> <<>>, axis |-> 0, noncontig |-> {}]

\* no execution group is running
NoBlock ==
  [k |-> 0, bx |-> 0, by |-> 0, pc |-> "idle", l |-> 0, regs |-> <<>>, buf |-> <<>>,
   g |-> <<>>, warps |-> <<>>, ld |-> <<>>]

ForwardBlobs == {"in_data", "gamma", "beta", "out_data", "mean_data", "std_data"}

\* the instances of the forward operator: every combination of absent gamma
\* and beta on the ramp, both or none on the other inputs, eps = 1 on long rows
ForwardInstance(sh, pe, nulls) ==
  /\ pe # <<0, R(1)>> => nulls \in {{}, {"gamma", "beta"}}
  /\ sh[Len(sh)] > 2 * WarpSize => pe[2] = R(1)

Init ==
  \E sh \in Shapes(SmallChannels \cup WideChannels), pe \in ForwardInputs,
     nulls \in SUBSET {"gamma", "beta"} :
    /\ ForwardInstance(sh, pe, nulls)
    /\ shape = sh
    /\ eps = pe[2]
    /\ mem = ForwardMemory(sh, pe[1], nulls)
    /\ call = NoCall
    /\ status = "idle"
    /\ trace = <<>>
    /\ stream = <<>>
    /\ done = {}
    /\ blk = NoBlock
    /\ writes = NoStores(ForwardMemory(sh, pe[1], nulls))

(* ------------------------------- actions ------------------------------- *)
\* the host calls the entry point `fn`, whose outcome is o
HostCall(fn, req, axis, noncontig, o) ==
  /\ status = "idle"
  /\ call' = [fn |-> fn, req |-> req, axis |-> axis, noncontig |-> noncontig]
  /\ status' = o.status
  /\ trace' = o.trace
  /\ stream' = o.launches
  /\ UNCHANGED <<shape, eps, mem, done, blk, writes>>

\* the host code reads no element of a buffer: every request, axis and layout
\* is explored on the ramp with gamma, beta and eps = 1, and the plain request
\* (kWriteTo, axis = -1, contiguous buffers) on every instance
ForwardCallExplored(r, axis, noncontig) ==
  \/ r = kWriteTo /\ axis = -1 /\ noncontig = {}
  \/ eps = R(1) /\ mem = ForwardMemory(shape, 0, {})

\* FCompute<gpu> of LayerNorm is invoked, on the blobs of a forward call
CallLayerNormCompute ==
  /\ status = "idle"
  /\ "out_data" \in DOMAIN mem
  /\ \E r \in OpReqType, axis \in -(Len(shape) + 1) .. Len(shape),
        noncontig \in {{}} \cup {{b} : b \in ForwardBlobs} :
       /\ ForwardCallExplored(r, axis, noncontig)
       /\ HostCall("LayerNormCompute", [i \in {0} |-> r], axis, noncontig,
                   LayerNormCompute([i \in {0} |-> r], axis, shape, mem, eps, noncontig))

KernelDone(k) ==
  \A bx \in 0 .. stream[k].gridDim[1] - 1, by \in 0 .. stream[k].gridDim[2] - 1 :
    <<k, bx, by>> \in done

\* block (bx, by) of kernel stream[k] may run: stream order, every block once
Runnable(k, bx, by) ==
  /\ k \in 1 .. Len(stream)
  /\ \A j \in 1 .. k - 1 : KernelDone(j)
  /\ bx \in 0 .. stream[k].gridDim[1] - 1
  /\ by \in 0 .. stream[k].gridDim[2] - 1
  /\ <<k, bx, by>> \notin done

\* int bid = blockIdx.x + blockIdx.y * gridDim.x
Bid(k, bx, by) == bx + by * stream[k].gridDim[1]

\* the launch and the block the running execution group belongs to
Launch == stream[blk.k]

BlockBid == Bid(blk.k, blk.bx, blk.by)

\* const int nthread = blockDim.x * blockDim.y
NThread(k) == stream[k].blockDim[1] * stream[k].blockDim[2]

Step(pc, l, regs, buf) ==
  /\ blk' = [blk EXCEPT !.pc = pc, !.l = l, !.regs = regs, !.buf = buf]
  /\ UNCHANGED <<shape, eps, mem, call, status, trace, stream, done, writes>>

\* an execution group of the forward kernel starts and every lane accumulates
\* its channels; a group with bid >= nbatch does nothing
StartForwardBlock ==
  \E k \in 1 .. Len(stream) :
    \E bx \in 0 .. stream[k].gridDim[1] - 1, by \in 0 .. stream[k].gridDim[2] - 1 :
      /\ blk.pc = "idle"
      /\ Runnable(k, bx, by)
      /\ stream[k].kernel = "LayerNormFusedForwardKernelContig"
      /\ IF Bid(k, bx, by) < stream[k].args.nbatch
         THEN /\ blk' = [NoBlock EXCEPT
                         !.k = k, !.bx = bx, !.by = by, !.pc = "warp",
                         !.regs = ForwardAccumulate(mem, stream[k].args, Bid(k, bx, by),
                                                    NThread(k)),
                         !.buf = SharedBuf(stream[k].nshared)]
              /\ done' = done
         ELSE /\ blk' = blk
              /\ done' = done \cup {<<k, bx, by>>}
      /\ UNCHANGED <<shape, eps, mem, call, status, trace, stream, writes>>

\* one round of the intra-warp merge
ForwardWarpStep ==
  /\ blk.pc = "warp"
  /\ LET regs == ForwardWarpRound(blk.regs, blk.l, NThread(blk.k))
     IN  IF blk.l < 4 THEN Step("warp", blk.l + 1, regs, blk.buf)
         ELSE IF Launch.blockDim[2] = 1 THEN Step("shfl", 0, regs, blk.buf)
         ELSE Step("store", Launch.blockDim[2] \div 2, regs, blk.buf)

ForwardShflStep ==
  /\ blk.pc = "shfl"
  /\ Step("write", 0, ForwardShflBroadcast(blk.regs, Launch.args.nchannel, NThread(blk.k)),
          blk.buf)

\* the first half of a halving step, up to its barrier
ForwardStoreStep ==
  /\ blk.pc = "store"
  /\ Step("merge", blk.l, blk.regs,
          ForwardStoreUpper(blk.regs, blk.buf, blk.l, Launch.blockDim[2]))

\* the second half of a halving step, up to its barrier
ForwardMergeStep ==
  /\ blk.pc = "merge"
  /\ Step(IF blk.l \div 2 > 0 THEN "store" ELSE "bstore", blk.l \div 2,
          ForwardMergeLower(blk.regs, blk.buf, blk.l, Launch.blockDim[2], NThread(blk.k)),
          blk.buf)

ForwardBroadcastStoreStep ==
  /\ blk.pc = "bstore"
  /\ Step("bload", 0, blk.regs, ForwardBroadcastStore(blk.regs, blk.buf, Launch.blockDim[2]))

ForwardBroadcastLoadStep ==
  /\ blk.pc = "bload"
  /\ Step("write", 0,
          ForwardBroadcastLoad(blk.regs, blk.buf, Launch.args.nchannel, Launch.blockDim[2],
                               NThread(blk.k)),
          blk.buf)

\* the lanes store the outputs and the group ends
ForwardWriteStep ==
  /\ blk.pc = "write"
  /\ mem' = ForwardWrite(mem, Launch.args, blk.regs, BlockBid, NThread(blk.k))
  /\ writes' = ForwardStores(writes, Launch.args, BlockBid, NThread(blk.k))
  /\ done' = done \cup {<<blk.k, blk.bx, blk.by>>}
  /\ blk' = NoBlock
  /\ UNCHANGED <<shape, eps, call, status, trace, stream>>

Next ==
  \/ CallLayerNormCompute
  \/ StartForwardBlock
  \/ ForwardWarpStep
  \/ ForwardShflStep
  \/ ForwardStoreStep
  \/ ForwardMergeStep
  \/ ForwardBroadcastStoreStep
  \/ ForwardBroadcastLoadStep
  \/ ForwardWriteStep

Spec == Init /\ [][Next]_vars

(* ------------------------ the backward operator ------------------------ *)
\* channel counts explored by the backward operator: the last loop only (2),
\* one chunk and a rest (5), two lane-groups in the data-gradient kernel (33)
BackwardChannels == {2, 5, 33}

\* what the gradient buffers hold before the call
Seed == R(5)

\* the values of the stream handle explored, counted in elements of shared
\* memory: the null handle, and one that covers the scratch of a 32x2 block
StreamHandles == {0, 2 * WarpSize}

\* the buffers of a backward call on a tensor of shape sh; beta is the shift
\* parameter of the operator, which the call is not handed
BackwardMemory(sh, p) ==
  LET n == sh[Len(sh)]
      B == ProdShape(sh, 0, Len(sh) - 1)
  IN  [out_grad   |-> Force([i \in 0 .. B * n - 1 |-> OutGradVal(p, i \div n, i % n)]),
       in_data    |-> Force([i \in 0 .. B * n - 1 |-> InVal(p, n, i \div n, i % n)]),
       gamma      |-> Force([i \in 0 .. n - 1 |-> GammaVal(p, i)]),
       beta       |-> Force([i \in 0 .. n - 1 |-> BetaVal(p, i)]),
       mean_data  |-> Force([i \in 0 .. B - 1 |-> SavedMeanVal(p, i)]),
       std_data   |-> Force([i \in 0 .. B - 1 |-> SavedStdVal(p, i)]),
       data_grad  |-> Force([i \in 0 .. B * n - 1 |-> Seed]),
       gamma_grad |-> Force([i \in 0 .. n - 1 |-> Seed]),
       beta_grad  |-> Force([i \in 0 .. n - 1 |-> Seed])]

BackwardBlobs ==
  {"out_grad", "in_data", "gamma", "mean_data", "std_data", "data_grad", "gamma_grad",
   "beta_grad"}

\* one row as a rank-1 tensor, more rows as a rank-2 tensor; the rows of more
\* than one lane-group come with one row and with two
BackwardShapes ==
  {<<c>> : c \in BackwardChannels}
    \cup {<<b, c>> : b \in 2 .. MaxBatch, c \in {n \in BackwardChannels : n <= WarpSize}}
    \cup {<<2, c>> : c \in {n \in BackwardChannels : n > WarpSize}}

InitGrad ==
  \E sh \in BackwardShapes, p \in {0, 2} :
    /\ shape = sh
    /\ eps = R(1)
    /\ mem = BackwardMemory(sh, p)
    /\ call = NoCall
    /\ status = "idle"
    /\ trace = <<>>
    /\ stream = <<>>
    /\ done = {}
    /\ blk = NoBlock
    /\ writes = NoStores(BackwardMemory(sh, p))

Reqs == [0 .. 2 -> OpReqType]

\* the handle matters to blocks of more than one lane-group only.  The host
\* code reads no element of a buffer: every request and layout is explored on
\* two rows of two channels, through the launcher, and every request, axis and
\* layout through LayerNormGradCompute but for the calls that repeat a launch
\* of the launcher; on the other instances contiguous buffers with one output
\* requested, or, on the short rows, all three as kWriteTo
GradCallExplored(fn, req, axis, noncontig, h) ==
  /\ shape[Len(shape)] <= WarpSize => h = 0
  /\ \/ /\ shape = <<2, 2>> /\ mem = BackwardMemory(shape, 0)
        /\ (fn = "LayerNormGradCompute" /\ req[0] = kWriteTo /\ axis \in {-1, Len(shape) - 1}) =>
             \/ axis = -1 /\ noncontig = {}
             \/ axis = Len(shape) - 1 /\ noncontig = {} /\ req[1] = kNullOp /\ req[2] = kNullOp
     \/ /\ axis = -1
        /\ noncontig = {}
        /\ \/ \E i \in 0 .. 2 : /\ req[i] \in {kWriteTo, kAddTo}
                                 /\ \A j \in 0 .. 2 \ {i} : req[j] = kNullOp
           \/ /\ \A i \in 0 .. 2 : req[i] = kWriteTo
              /\ shape[Len(shape)] <= WarpSize

\* FCompute<gpu> of the gradient of LayerNorm is invoked, on the blobs of a
\* backward call
CallLayerNormGradCompute ==
  /\ status = "idle"
  /\ "out_grad" \in DOMAIN mem
  /\ \E req \in Reqs, axis \in -(Len(shape) + 1) .. Len(shape),
        noncontig \in {{}} \cup {{b} : b \in BackwardBlobs}, h \in StreamHandles :
       /\ GradCallExplored("LayerNormGradCompute", req, axis, noncontig, h)
       /\ HostCall("LayerNormGradCompute", req, axis, noncontig,
                   LayerNormGradCompute(req, axis, shape, mem, noncontig, h))

\* the fused launcher is called on a tensor normalised along its last axis
CallLayerNormGradGPUContig ==
  /\ status = "idle"
  /\ "out_grad" \in DOMAIN mem
  /\ \E req \in Reqs, noncontig \in {{}} \cup {{b} : b \in BackwardBlobs},
        h \in StreamHandles :
       /\ GradCallExplored("LayerNormGradGPUContig", req, -1, noncontig, h)
       /\ HostCall("LayerNormGradGPUContig", req, -1, noncontig,
                   LayerNormGradGPUContig(shape, mem, req, noncontig, h))

\* the reads of mean_data and std_data by channel index leave the buffers of
\* nbatch elements when nchannel > nbatch
GammaBetaGarbage(la) == IF la.args.nchannel > la.args.nbatch THEN Garbage ELSE {R(1)}

\* the block of the parameter-gradient kernel runs; its lanes share nothing
\* and meet at no barrier
RunGammaBetaBlock ==
  \E k \in 1 .. Len(stream) :
    /\ blk.pc = "idle"
    /\ Runnable(k, 0, 0)
    /\ stream[k].kernel = "LayerNormFusedBackwardKernel_GammaBeta"
    /\ LET lanes == GammaBetaLanes(NThread(k), stream[k].args.nchannel)
       IN  \E no_gamma \in BOOLEAN, no_beta \in BOOLEAN, g \in GammaBetaGarbage(stream[k]) :
             /\ mem' = GammaBetaBlock(mem, stream[k], lanes, no_gamma, no_beta, g)
             /\ writes' = GammaBetaStores(writes, stream[k], lanes, no_gamma, no_beta)
    /\ done' = done \cup {<<k, 0, 0>>}
    /\ UNCHANGED <<shape, eps, call, status, trace, stream, blk>>

\* the elements of shared memory the inter-warp reduction of a block addresses
DataSharedNeeded(bdim) == IF bdim[2] > 1 THEN 2 * (bdim[2] \div 2) * bdim[1] ELSE 0

\* a read of the scratch beyond the shared memory of the launch is undefined
DataGarbage(la) == IF la.nshared < DataSharedNeeded(la.blockDim) THEN Garbage ELSE {R(1)}

\* an execution group of the data-gradient kernel starts and every lane sums
\* its channels; a group with bid >= nbatch does nothing
StartDataBlock ==
  \E k \in 1 .. Len(stream) :
    \E bx \in 0 .. stream[k].gridDim[1] - 1, by \in 0 .. stream[k].gridDim[2] - 1 :
      /\ blk.pc = "idle"
      /\ Runnable(k, bx, by)
      /\ stream[k].kernel = "LayerNormFusedBackwardKernel_Data"
      /\ IF Bid(k, bx, by) < stream[k].args.nbatch
         THEN /\ \E g \in DataGarbage(stream[k]) :
                   blk' = [NoBlock EXCEPT
                             !.k = k, !.bx = bx, !.by = by, !.pc = "dxor",
                             !.l = stream[k].blockDim[1] \div 2,
                             !.regs = DataAccumulate(mem, stream[k].args, Bid(k, bx, by),
                                                     NThread(k)),
                             !.buf = SharedBuf(stream[k].nshared),
                             !.g = g,
                             !.warps = [y \in 0 .. stream[k].blockDim[2] - 1 |-> "todo"],
                             !.ld = [y \in 0 .. stream[k].blockDim[2] - 1 |-> <<>>]]
              /\ done' = done
         ELSE /\ blk' = blk
              /\ done' = done \cup {<<k, bx, by>>}
      /\ UNCHANGED <<shape, eps, mem, call, status, trace, stream, writes>>

\* one round of the butterfly
DataXorStep ==
  /\ blk.pc = "dxor"
  /\ LET regs == DataXorRound(blk.regs, blk.l, NThread(blk.k))
     IN  IF blk.l \div 2 > 0 THEN Step("dxor", blk.l \div 2, regs, blk.buf)
         ELSE IF Launch.blockDim[2] > 1
         THEN Step("dstore", Launch.blockDim[2] \div 2, regs, blk.buf)
         ELSE Step("dmean", 0, regs, blk.buf)

\* the first half of a halving step, up to its barrier
DataStoreStep ==
  /\ blk.pc = "dstore"
  /\ Step("dmerge", blk.l, blk.regs,
          DataStoreUpper(blk.regs, blk.buf, blk.l, Launch.blockDim))

\* the second half of a halving step, up to its barrier
DataMergeStep ==
  /\ blk.pc = "dmerge"
  /\ Step(IF blk.l \div 2 > 0 THEN "dstore" ELSE "dbstore", blk.l \div 2,
          DataMergeLower(blk.regs, blk.buf, blk.l, Launch.blockDim, blk.g), blk.buf)

DataBroadcastStoreStep ==
  /\ blk.pc = "dbstore"
  /\ Step("dbload", 0, blk.regs, DataBroadcastStore(blk.regs, blk.buf, Launch.blockDim))

DataBroadcastLoadStep ==
  /\ blk.pc = "dbload"
  /\ Step("dmean", 0, DataBroadcastLoad(blk.regs, blk.buf, Launch.blockDim, blk.g), blk.buf)

\* the division of the two sums by nchannel
DataMeanStep ==
  /\ blk.pc = "dmean"
  /\ Step("dwrite", 0, DataMean(blk.regs, Launch.args.nchannel), blk.buf)

\* `+=` only: the lanes of lane-group y load the elements they add to
DataLoadStep ==
  /\ blk.pc = "dwrite"
  /\ Launch.addto.data
  /\ \E y \in DOMAIN blk.warps :
       /\ blk.warps[y] = "todo"
       /\ blk' = [blk EXCEPT !.warps[y] = "loaded", !.ld[y] = mem[Launch.args.data_grad]]
  /\ UNCHANGED <<shape, eps, mem, call, status, trace, stream, done, writes>>

\* the lanes of lane-group y store; the group ends with its last store
DataWriteStep ==
  /\ blk.pc = "dwrite"
  /\ \E y \in DOMAIN blk.warps :
       /\ blk.warps[y] = IF Launch.addto.data THEN "loaded" ELSE "todo"
       /\ mem' = DataWarpStore(mem, Launch, blk.regs, BlockBid, y, blk.ld[y])
       /\ writes' = DataWarpStores(writes, Launch, BlockBid, y)
       /\ IF \A z \in DOMAIN blk.warps \ {y} : blk.warps[z] = "stored"
          THEN /\ blk' = NoBlock
               /\ done' = done \cup {<<blk.k, blk.bx, blk.by>>}
          ELSE /\ blk' = [blk EXCEPT !.warps[y] = "stored", !.ld[y] = <<>>]
               /\ done' = done
  /\ UNCHANGED <<shape, eps, call, status, trace, stream>>

NextGrad ==
  \/ CallLayerNormGradCompute
  \/ CallLayerNormGradGPUContig
  \/ RunGammaBetaBlock
  \/ StartDataBlock
  \/ DataXorStep
  \/ DataStoreStep
  \/ DataMergeStep
  \/ DataBroadcastStoreStep
  \/ DataBroadcastLoadStep
  \/ DataMeanStep
  \/ DataLoadStep
  \/ DataWriteStep

SpecGrad == InitGrad /\ [][NextGrad]_vars

(* ------------------- the statistics helpers on their own --------------- *)
\* the values fed to the helpers
Values == {R(-1), R(0), <<5, 2>>}

\* a lane accumulates the values col_vals[0], col_vals[1], ... one step at a
\* time, from the triple (0, 0, 0); every sequence of at most MaxLen values
InitWelford ==
  \E k \in 0 .. MaxLen : \E xs \in [0 .. k - 1 -> Values] :
    /\ shape = <<k>>
    /\ eps = R(1)
    /\ mem = [in_data |-> xs]
    /\ call = NoCall
    /\ status = "idle"
    /\ trace = <<>>
    /\ stream = <<>>
    /\ done = {}
    /\ blk = [NoBlock EXCEPT !.pc = "welford", !.regs = ZeroTriple]
    /\ writes = NoStores([in_data |-> xs])

\* StepWelfordOnlineSum(col_vals[l], mean, sigma2, count)
WelfordStep ==
  /\ blk.pc = "welford"
  /\ blk.l \in DOMAIN mem.in_data
  /\ Step("welford", blk.l + 1, StepWelfordOnlineSum(mem.in_data[blk.l], blk.regs), blk.buf)

NextWelford == WelfordStep

SpecWelford == InitWelford /\ [][NextWelford]_vars

\* the values of the partitions that are merged
MergeValues == {R(-1), <<5, 2>>}

\* p <= q
RLe(p, q) == ~RPos(RSub(p, q))

\* the partitions: every multiset of at most MaxPart values, as a sequence in
\* non-decreasing order
Partitions ==
  UNION {{xs \in [0 .. k - 1 -> MergeValues] :
            \A i \in 0 .. k - 2 : RLe(xs[i], xs[i + 1])} : k \in 0 .. MaxPart}

\* triples with a non-negative count that are the triple of no multiset
OtherTriples ==
  {[mean |-> R(0), sigma2 |-> R(3), count |-> R(0)],
   [mean |-> R(5), sigma2 |-> R(0), count |-> R(0)],
   [mean |-> R(1), sigma2 |-> R(5), count |-> R(2)]}

\* (mean, sigma2, count) of the values xs[0] .. xs[k - 1], by definition
TripleOf(xs) ==
  LET k == Cardinality(DOMAIN xs)
  IN  IF k = 0 THEN ZeroTriple
      ELSE LET mu == RDiv(SumOf(xs, 0, k), R(k))
           IN  [mean   |-> mu,
                sigma2 |-> SumOf([j \in 0 .. k - 1 |->
                                         RMul(RSub(xs[j], mu), RSub(xs[j], mu))], 0, k),
                count  |-> R(k)]

\* what is merged: the triple of a partition together with the partition {xs},
\* or another triple, of no partition {}
Mergeable ==
  {[triple |-> TripleOf(xs), of |-> {xs}] : xs \in Partitions}
    \cup {[triple |-> t, of |-> {}] : t \in OtherTriples}

\* three triples are held, the registers of three lanes: blk.regs; mem.of names
\* the partition each stands for, mem.init keeps the three triples
InitMerge ==
  \E a \in Mergeable, b \in Mergeable, c \in Mergeable :
    /\ shape = <<3>>
    /\ eps = R(1)
    /\ mem = [of |-> <<a.of, b.of, c.of>>, init |-> <<a.triple, b.triple, c.triple>>]
    /\ call = NoCall
    /\ status = "idle"
    /\ trace = <<>>
    /\ stream = <<>>
    /\ done = {}
    /\ blk = [NoBlock EXCEPT !.pc = "merge3", !.regs = <<a.triple, b.triple, c.triple>>]
    /\ writes = <<>>

\* the sequence q without its element i
Without(q, i) == SubSeq(q, 1, i - 1) \o SubSeq(q, i + 1, Len(q))

\* the values of the partition xs followed by those of ys
Concat(xs, ys) ==
  LET kx == Cardinality(DOMAIN xs)
      ky == Cardinality(DOMAIN ys)
  IN  [t \in 0 .. kx + ky - 1 |-> IF t < kx THEN xs[t] ELSE ys[t - kx]]

\* the union of two partitions; none when a triple stands for no partition
Union(p, q) == {Concat(xs, ys) : xs \in p, ys \in q}

\* ChanMergePartition(lhs, rhs) on two of the triples held: triple i is merged
\* into triple j and dropped; trace lists the merges <<i, j>>
MergeStep ==
  /\ blk.pc = "merge3"
  /\ \E i \in 1 .. Len(blk.regs), j \in 1 .. Len(blk.regs) :
       /\ i # j
       /\ blk' = [blk EXCEPT
                    !.regs = Without([blk.regs EXCEPT
                                        ![j] = ChanMergePartition(blk.regs[i], blk.regs[j])], i)]
       /\ mem' = [mem EXCEPT
                    !.of = Without([mem.of EXCEPT ![j] = Union(mem.of[i], mem.of[j])], i)]
       /\ trace' = Append(trace, <<i, j>>)
  /\ UNCHANGED <<shape, eps, call, status, stream, done, writes>>

NextMerge == MergeStep

SpecMerge == InitMerge /\ [][NextMerge]_vars

(* ------------------------ the host side of a call --------------------- *)
\* a call of either operator up to its return: the kernels it launched are in
\* the stream and have not run
InitHost == Init \/ InitGrad

NextHost ==
  \/ CallLayerNormCompute
  \/ CallLayerNormGradCompute
  \/ CallLayerNormGradGPUContig

SpecHost == InitHost /\ [][NextHost]_vars

(* ------------------- reference: the two-pass computation --------------- *)
RECURSIVE RSum(_, _, _)
\* f[lo] + ... + f[hi - 1]
RSum(f, lo, hi) ==
  IF lo >= hi THEN R(0)
  ELSE IF lo + 1 = hi THEN f[lo]
  ELSE LET mid == (lo + hi) \div 2 IN RAdd(RSum(f, lo, mid), RSum(f, mid, hi))

\* the arithmetic mean of the n values of row b of x
NaiveMean(x, b, n) == RDiv(RSum(x, b * n, b * n + n), R(n))

\* the population variance of row b of x: the mean of the squared deviations
NaiveVar(x, b, n) ==
  LET mu  == NaiveMean(x, b, n)
      dev == Force([j \in b * n .. b * n + n - 1 |->
                      RMul(RSub(x[j], mu), RSub(x[j], mu))])
  IN  Eager(mu, dev, RDiv(RSum(dev, b * n, b * n + n), R(n)))

\* 1 / sqrt(population variance of row b + e)
NaiveInvStd(x, e, b, n) == SInv(Sqrt(RAdd(NaiveVar(x, b, n), e)))

\* scale[c] * invStd * (in_data[b, c] - mean) + shift[c], an absent scale
\* counting as 1 and an absent shift as 0
NaiveOut(m, mean, invStd, b, c, n) ==
  LET scale == IF DOMAIN m.gamma = {} THEN R(1) ELSE m.gamma[c]
      shift == IF DOMAIN m.beta = {} THEN R(0) ELSE m.beta[c]
  IN  SAddR(SScale(RMul(scale, RSub(m.in_data[b * n + c], mean)), invStd), shift)

\* the rows whose execution group of the forward kernel has run to its end
ForwardRowsDone ==
  {Bid(d[1], d[2], d[3]) :
     d \in {e \in done : stream[e[1]].kernel = "LayerNormFusedForwardKernelContig"}}

NChannel == shape[Len(shape)]

NBatch == ProdShape(shape, 0, Len(shape) - 1)

(* -------------------------------- claims ------------------------------- *)
\* C1: once the execution group of row b of the forward kernel, launched as
\* LayerNormGPUContig launches it, has run, mean_data[b] is the arithmetic mean
\* of row b and std_data[b] is sqrt(population variance of row b + eps), the
\* values of the two-pass computation.  Memory changes when a group ends, so
\* the rows are looked at between two groups.
C1_ForwardStatistics ==
  \A b \in ForwardRowsDone :
    blk.pc = "idle" =>
    /\ mem.mean_data[b] = NaiveMean(mem.in_data, b, NChannel)
    /\ mem.std_data[b] = Sqrt(RAdd(NaiveVar(mem.in_data, b, NChannel), eps))

\* the rows [[0,1,2],[3,4,5]] have been normalised
RampNormalised ==
  /\ shape = <<2, 3>>
  /\ \A j \in 0 .. 5 : mem.in_data[j] = R(j)
  /\ ForwardRowsDone = {0, 1}
  /\ blk.pc = "idle"

\* the rows [[0,1,2],[3,4,5]] have been normalised: means 1 and 4, variances 2/3
C1_Witness ==
  /\ RampNormalised
  /\ mem.mean_data[0] = R(1) /\ mem.mean_data[1] = R(4)
  /\ mem.std_data[0] = Sqrt(RAdd(<<2, 3>>, eps))
  /\ mem.std_data[1] = Sqrt(RAdd(<<2, 3>>, eps))

\* C1, its example as worded: the rows [[0,1,2],[3,4,5]] give the means
\* 1 and 2 and the variances 2/3 and 2/3
C1_ExampleAsWorded ==
  RampNormalised =>
    /\ mem.mean_data[0] = R(1) /\ mem.mean_data[1] = R(2)
    /\ mem.std_data[0] = Sqrt(RAdd(<<2, 3>>, eps))
    /\ mem.std_data[1] = Sqrt(RAdd(<<2, 3>>, eps))

\* C2: once the execution group of row b has run, every out_data[b, c] holds
\* scale[c] * invStd_b * (in_data[b, c] - mean_b) + shift[c] (no scale when
\* gamma is NULL, no shift when beta is NULL) and has been stored exactly once;
\* the elements of a row whose group has not finished have not been stored.
C2_ForwardOutput ==
  \A b \in 0 .. NBatch - 1 :
    blk.pc = "idle" =>
    IF b \in ForwardRowsDone
    THEN LET mean   == NaiveMean(mem.in_data, b, NChannel)
             invStd == NaiveInvStd(mem.in_data, eps, b, NChannel)
         IN  Eager(mean, invStd,
                   \A c \in 0 .. NChannel - 1 :
                     /\ mem.out_data[b * NChannel + c]
                          = NaiveOut(mem, mean, invStd, b, c, NChannel)
                     /\ writes.out_data[b * NChannel + c] = 1)
    ELSE \A c \in 0 .. NChannel - 1 : writes.out_data[b * NChannel + c] = 0

\* two rows of 133 channels, with gamma and beta, have been normalised by
\* blocks of two warps
C2_Witness ==
  /\ shape = <<2, 133>>
  /\ DOMAIN mem.gamma # {} /\ DOMAIN mem.beta # {}
  /\ ForwardRowsDone = {0, 1}
  /\ \A j \in 0 .. 265 : writes.out_data[j] = 1
  /\ mem.out_data[132] = NaiveOut(mem, NaiveMean(mem.in_data, 0, 133),
                                  NaiveInvStd(mem.in_data, eps, 0, 133), 0, 132, 133)

\* the memory with gamma[c] = 1 and beta[c] = 0 for all c in place of gamma, beta
UnitAffine(m) ==
  [m EXCEPT !.gamma = Force([c \in 0 .. NChannel - 1 |-> R(1)]),
            !.beta  = Force([c \in 0 .. NChannel - 1 |-> R(0)])]

\* C3: when the forward kernel run with gamma = NULL and beta = NULL has ended,
\* out_data, mean_data and std_data hold for every row what the forward kernel
\* run with gamma[c] = 1 and beta[c] = 0 for all c leaves there.
C3_NullAffineIsUnitAffine ==
  \A b \in ForwardRowsDone :
    (KernelDone(1) /\ stream[1].args.gamma = NULL /\ stream[1].args.beta = NULL) =>
      LET unit == ForwardBlock(UnitAffine(mem),
                               [stream[1].args EXCEPT !.gamma = "gamma", !.beta = "beta"],
                               b, stream[1].blockDim, stream[1].nshared)
      IN  /\ \A c \in 0 .. NChannel - 1 :
                mem.out_data[b * NChannel + c] = unit.out_data[b * NChannel + c]
          /\ mem.mean_data[b] = unit.mean_data[b]
          /\ mem.std_data[b] = unit.std_data[b]

\* a kernel without gamma and beta has normalised two rows of 33 channels
C3_Witness ==
  /\ shape = <<2, 33>>
  /\ Len(stream) = 1
  /\ stream[1].args.gamma = NULL /\ stream[1].args.beta = NULL
  /\ ForwardRowsDone = {0, 1}
  /\ mem.out_data[0] # SOfR(R(3))

\* C9: LayerNormCompute<gpu> called with kAddTo for the normalised output ends
\* in a fatal error whatever the axis; it launches no kernel, enters neither
\* LayerNormGPUContig nor LayerNormComputeGeneral, and no buffer is stored to.
C9_ForwardAddToIsFatal ==
  (call.fn = "LayerNormCompute" /\ call.req[0] = kAddTo) =>
    /\ status = "fatal"
    /\ stream = <<>>
    /\ trace = <<>>
    /\ done = {}
    /\ blk = NoBlock
    /\ writes = NoStores(mem)

\* kAddTo on the last axis with contiguous buffers: without the request mode
\* the call would launch the fused kernel
C9_Witness ==
  /\ call.fn = "LayerNormCompute"
  /\ call.req[0] = kAddTo
  /\ call.axis = Len(shape) - 1
  /\ call.noncontig = {}
  /\ status = "fatal"

(* ------------------ reference: the gradients of LayerNorm -------------- *)
\* the saved statistics of row b
SavedMean(m, b) == m.mean_data[b]

SavedInvStd(m, b) == RDiv(R(1), RatOf(m.std_data[b]))

\* sum over the rows b of (in_data[b, c] - mean_data[b]) / std_data[b] * out_grad[b, c]
NaiveGammaGrad(m, c, nbatch, n) ==
  RSum(Force([b \in 0 .. nbatch - 1 |->
                RMul(RMul(RSub(m.in_data[b * n + c], SavedMean(m, b)), SavedInvStd(m, b)),
                     m.out_grad[b * n + c])]),
       0, nbatch)

\* sum over the rows b of out_grad[b, c]
NaiveBetaGrad(m, c, nbatch, n) ==
  RSum(Force([b \in 0 .. nbatch - 1 |-> m.out_grad[b * n + c]]), 0, nbatch)

\* S0_b: the mean over the channels of out_grad * scale * invStd
NaiveS0(m, b, n) ==
  RDiv(RSum(Force([c \in 0 .. n - 1 |->
                     RMul(RMul(m.out_grad[b * n + c], m.gamma[c]), SavedInvStd(m, b))]),
            0, n),
       R(n))

\* S1_b: the mean over the channels of out_grad * scale * (in_data - mean) * invStd^2
NaiveS1(m, b, n) ==
  RDiv(RSum(Force([c \in 0 .. n - 1 |->
                     RMul(RMul(RMul(m.out_grad[b * n + c], m.gamma[c]),
                               RSub(m.in_data[b * n + c], SavedMean(m, b))),
                          RMul(SavedInvStd(m, b), SavedInvStd(m, b)))]),
            0, n),
       R(n))

\* out_grad * scale * invStd - S0 - (in_data - mean) * invStd * S1
NaiveDataGrad(m, s0, s1, b, c, n) ==
  RSub(RSub(RMul(RMul(m.out_grad[b * n + c], m.gamma[c]), SavedInvStd(m, b)), s0),
       RMul(RMul(RSub(m.in_data[b * n + c], SavedMean(m, b)), SavedInvStd(m, b)), s1))

\* the launches of the parameter-gradient kernel whose block has run
GammaBetaDone ==
  {k \in 1 .. Len(stream) :
     stream[k].kernel = "LayerNormFusedBackwardKernel_GammaBeta" /\ KernelDone(k)}

\* the blocks of the data-gradient kernel that have run to their end, the
\* launch having the shared memory the block addresses
DataBlocksDone(addto) ==
  {d \in done : /\ stream[d[1]].kernel = "LayerNormFusedBackwardKernel_Data"
                /\ stream[d[1]].addto.data = addto
                /\ stream[d[1]].nshared >= DataSharedNeeded(stream[d[1]].blockDim)
                /\ Bid(d[1], d[2], d[3]) < NBatch}

\* the fused launcher of the gradient has been entered
GradGPUContigEntered ==
  \/ call.fn = "LayerNormGradGPUContig"
  \/ \E i \in DOMAIN trace : trace[i] = "LayerNormGradGPUContig"

\* C4: once the block of the parameter-gradient kernel has run in Overwrite
\* mode, the buffer its gamma_grad parameter addresses holds, for every channel
\* c, the sum over the rows b of (in_data[b,c] - mean_data[b]) / std_data[b] *
\* out_grad[b,c], and the buffer its beta_grad parameter addresses the sum over
\* the rows of out_grad[b,c].
C4_GammaBetaOverwrite ==
  \A k \in GammaBetaDone :
    (/\ ~stream[k].addto.gamma /\ ~stream[k].addto.beta
     /\ stream[k].args.gamma_grad # NULL /\ stream[k].args.beta_grad # NULL) =>
      \A c \in 0 .. NChannel - 1 :
        /\ mem[stream[k].args.gamma_grad][c] = NaiveGammaGrad(mem, c, NBatch, NChannel)
        /\ mem[stream[k].args.beta_grad][c] = NaiveBetaGrad(mem, c, NBatch, NChannel)

\* C5: once the execution group of row b of the data-gradient kernel has run
\* in Overwrite mode, launched as LayerNormGradGPUContig launches it, every
\* data_grad[b,c] is out_grad[b,c]*scale[c]*invStd_b - S0_b
\* - (in_data[b,c] - mean_b)*invStd_b*S1_b, S0_b and S1_b being means over all
\* the channels of the row.
C5_DataGradOverwrite ==
  \A d \in DataBlocksDone(FALSE) :
    LET b  == Bid(d[1], d[2], d[3])
        s0 == NaiveS0(mem, b, NChannel)
        s1 == NaiveS1(mem, b, NChannel)
    IN  Eager(s0, s1,
              \A c \in 0 .. NChannel - 1 :
                mem.data_grad[b * NChannel + c] = NaiveDataGrad(mem, s0, s1, b, c, NChannel))

\* C6: once the execution group of row b of the data-gradient kernel has run
\* in AccumulateInto mode on a buffer seeded with V, every data_grad[b,c] has
\* been stored exactly once and holds V + g, g being the gradient of the
\* element.
C6_AccumulateAddsOnce ==
  \A d \in DataBlocksDone(TRUE) :
    LET b  == Bid(d[1], d[2], d[3])
        s0 == NaiveS0(mem, b, NChannel)
        s1 == NaiveS1(mem, b, NChannel)
    IN  Eager(s0, s1,
              \A c \in 0 .. NChannel - 1 :
                /\ writes.data_grad[b * NChannel + c] = 1
                /\ mem.data_grad[b * NChannel + c]
                     = RAdd(Seed, NaiveDataGrad(mem, s0, s1, b, c, NChannel)))

\* C7: LayerNormGradCompute<gpu>, called along the last axis on contiguous
\* buffers with any of Overwrite, AccumulateInto and Skip on each of the three
\* outputs, is not fatal, launches the data-gradient kernel in AccumulateInto
\* mode when that is the mode of dataGrad, and launches the parameter-gradient
\* kernel when scaleGrad or shiftGrad is not skipped, whatever the mode of
\* dataGrad.
C7_GradComputeAcceptsEveryMode ==
  (/\ call.fn = "LayerNormGradCompute"
   /\ \A i \in 0 .. 2 : call.req[i] \in {kWriteTo, kAddTo, kNullOp}
   /\ call.noncontig = {}
   /\ call.axis \in {-1, Len(shape) - 1}) =>
    /\ status = "returned"
    /\ call.req[0] = kAddTo =>
         \E k \in 1 .. Len(stream) :
           stream[k].kernel = "LayerNormFusedBackwardKernel_Data" /\ stream[k].addto.data
    /\ (call.req[1] # kNullOp \/ call.req[2] # kNullOp) =>
         \E k \in 1 .. Len(stream) :
           stream[k].kernel = "LayerNormFusedBackwardKernel_GammaBeta"

\* C8: a call that ends with a fatal error has launched no kernel and no
\* element of a buffer has been stored to.
C8_ChecksBeforeLaunch ==
  status = "fatal" =>
    /\ stream = <<>>
    /\ \A name \in DOMAIN writes : \A i \in DOMAIN writes[name] : writes[name][i] = 0

\* C10: LayerNormGradGPUContig entered with kWriteInplace as the request of
\* dataGrad, scaleGrad or shiftGrad, whatever the other two requests, ends with
\* a fatal error and launches no kernel.
C10_GradInplaceIsFatal ==
  (GradGPUContigEntered /\ \E i \in 0 .. 2 : call.req[i] = kWriteInplace) =>
    status = "fatal" /\ stream = <<>>

\* the launcher was called with contiguous buffers, AccumulateInto on dataGrad,
\* Skip on scaleGrad and write-in-place on shiftGrad, and was fatal
C10_Witness ==
  /\ call.fn = "LayerNormGradGPUContig"
  /\ call.noncontig = {}
  /\ call.req[0] = kAddTo /\ call.req[1] = kNullOp /\ call.req[2] = kWriteInplace
  /\ status = "fatal"
  /\ stream = <<>>

(* ----------------------------- the dispatch ---------------------------- *)
\* the axis parameter a of a tensor of rank n, counted from the front
NormalisedAxis(a, n) == IF a < 0 THEN a + n ELSE a

FusedPathOf(fn) ==
  IF fn = "LayerNormCompute" THEN "LayerNormGPUContig" ELSE "LayerNormGradGPUContig"

GeneralPathOf(fn) ==
  IF fn = "LayerNormCompute" THEN "LayerNormComputeGeneral" ELSE "LayerNormGradComputeGeneral"

\* what the claim C11 says of a call of LayerNormCompute<gpu> or
\* LayerNormGradCompute<gpu>
AxisDispatched ==
  LET n  == Len(shape)
      ax == NormalisedAxis(call.axis, n)
  IN  /\ ax \notin 0 .. n - 1 => status = "fatal" /\ trace = <<>> /\ stream = <<>>
      /\ ax = n - 1 => trace = <<FusedPathOf(call.fn)>>
      /\ ax \in 0 .. n - 2 =>
           status = "returned" /\ trace = <<GeneralPathOf(call.fn)>> /\ stream = <<>>

\* C11: a call of LayerNormCompute<gpu> or LayerNormGradCompute<gpu> whose
\* request on its first output is kWriteTo or kWriteInplace normalises a
\* negative axis a to a + n, is fatal when the normalised axis is outside
\* [0, n), enters the fused launcher exactly when it is n - 1, and enters the
\* general fallback, launching no kernel, for every other valid axis.
C11_AxisDispatch ==
  (/\ call.fn \in {"LayerNormCompute", "LayerNormGradCompute"}
   /\ call.req[0] \in {kWriteTo, kWriteInplace}) => AxisDispatched

\* the gradient was asked along axis -2 of a rank-2 tensor: axis 0, the
\* general fallback
C11_Witness ==
  /\ call.fn = "LayerNormGradCompute"
  /\ shape = <<2, 2>>
  /\ call.axis = -2
  /\ call.req[0] = kWriteTo
  /\ status = "returned"
  /\ trace = <<"LayerNormGradComputeGeneral">>
  /\ stream = <<>>

\* C11 as worded, for every request: every call of LayerNormCompute<gpu> or
\* LayerNormGradCompute<gpu> is dispatched on its axis.
C11_AxisDispatchEveryRequest ==
  call.fn \in {"LayerNormCompute", "LayerNormGradCompute"} => AxisDispatched

(* ------------------- reference: the triple of a multiset --------------- *)
\* (mean, M2, count) of the values x[0] .. x[k - 1]: the arithmetic mean, the
\* sum of the squared deviations from it, the number of values; (0, 0, 0) for
\* no value
ExactTriple(x, k) ==
  IF k = 0 THEN ZeroTriple
  ELSE LET mu  == RDiv(RSum(x, 0, k), R(k))
           dev == Force([j \in 0 .. k - 1 |-> RMul(RSub(x[j], mu), RSub(x[j], mu))])
       IN  [mean |-> mu, sigma2 |-> RSum(dev, 0, k), count |-> R(k)]

\* C12: starting from (0, 0, 0), after StepWelfordOnlineSum has been applied
\* to the first k values of any sequence, count = k, mean is the mean of the k
\* values and M2 the sum of their squared deviations from that mean.
C12_WelfordIsExact ==
  blk.pc = "welford" => blk.regs = ExactTriple(mem.in_data, blk.l)

\* the values 5/2, -1, 0 have been accumulated: mean 1/2, M2 13/2, count 3
C12_Witness ==
  /\ blk.pc = "welford"
  /\ blk.l = 3
  /\ mem.in_data[0] = <<5, 2>> /\ mem.in_data[1] = R(-1) /\ mem.in_data[2] = R(0)
  /\ blk.regs = [mean |-> <<1, 2>>, sigma2 |-> <<13, 2>>, count |-> R(3)]

(* ------------------------- merges of partitions ------------------------ *)
\* after the first merge <<i, j>>: where the merged triple is held
FirstMerged == IF trace[1][1] < trace[1][2] THEN trace[1][2] - 1 ELSE trace[1][2]

\* C13: ChanMergePartition applied to the exact triples of two partitions
\* returns the exact triple of their union: every triple held that stands for
\* partitions is the triple (mean, M2, count) of their values, (0, 0, 0) when
\* there is none; and the merge of an empty partition with another returns the
\* triple of the other unchanged.
C13_MergeIsExact ==
  blk.pc = "merge3" =>
    /\ \A j \in 1 .. Len(blk.regs) :
         \A xs \in mem.of[j] : blk.regs[j] = ExactTriple(xs, Cardinality(DOMAIN xs))
    /\ (Len(trace) = 1 /\ mem.of[FirstMerged] # {}) =>
         /\ mem.init[trace[1][1]] = ZeroTriple => blk.regs[FirstMerged] = mem.init[trace[1][2]]
         /\ mem.init[trace[1][2]] = ZeroTriple => blk.regs[FirstMerged] = mem.init[trace[1][1]]

\* the empty partition was merged into the partition {-1, 5/2}, whose triple
\* (3/4, 49/8, 2) is unchanged
C13_Witness ==
  /\ blk.pc = "merge3"
  /\ trace = << <<1, 2>> >>
  /\ mem.init[1] = ZeroTriple
  /\ mem.init[2] = [mean |-> <<3, 4>>, sigma2 |-> <<49, 8>>, count |-> R(2)]
  /\ mem.of[1] # {}
  /\ blk.regs[1] = mem.init[2]

\* a triple of a partition has a positive count or is (mean, 0, 0)
Proper(t) == RPos(t.count) \/ t.sigma2 = R(0)

\* the merges made so far gave what the other order gives: the first merge
\* equals the merge with lhs and rhs exchanged, and the aggregate of the three
\* triples a, b, c equals merge(merge(a, b), c) and merge(a, merge(b, c))
OrderFree ==
  /\ Len(trace) = 1 =>
       blk.regs[FirstMerged]
         = ChanMergePartition(mem.init[trace[1][2]], mem.init[trace[1][1]])
  /\ Len(trace) = 2 =>
       /\ blk.regs[1]
            = ChanMergePartition(ChanMergePartition(mem.init[1], mem.init[2]), mem.init[3])
       /\ blk.regs[1]
            = ChanMergePartition(mem.init[1], ChanMergePartition(mem.init[2], mem.init[3]))

PreReduction == ForwardAccumulate(mem, Launch.args, BlockBid, NThread(blk.k))

RECURSIVE MergeLanes(_, _, _, _)
\* acc merged with the triples pre[lo] .. pre[hi - 1], each once, in lane order
MergeLanes(pre, lo, hi, acc) ==
  Eager(acc, lo, IF lo < hi
                 THEN MergeLanes(pre, lo + 1, hi, ChanMergePartition(acc, pre[lo]))
                 ELSE acc)

\* the merge of the 32 triples of lane-group y
GroupTriple(pre, y) == MergeLanes(pre, y * WarpSize, (y + 1) * WarpSize, ZeroTriple)

RECURSIVE MergeGroups(_, _, _, _)
\* acc merged with the triples of the lane-groups lo .. hi - 1, each once
MergeGroups(pre, lo, hi, acc) ==
  Eager(acc, lo, IF lo < hi
                 THEN MergeGroups(pre, lo + 1, hi, ChanMergePartition(acc, GroupTriple(pre, lo)))
                 ELSE acc)

\* the five warp rounds of the running group are over and nothing else is
AfterWarpRounds ==
  \/ blk.pc = "shfl"
  \/ blk.pc = "store" /\ blk.l = Launch.blockDim[2] \div 2

\* C15: after the five rounds of the forward kernel's warp reduction (shifts
\* 1, 2, 4, 8, 16, source lane (lane + shift) mod 32) every lane of a
\* lane-group holds the same triple, the merge of the 32 triples the lanes of
\* the group held before the rounds, each merged once.
C15_WarpRoundsAllReduce ==
  AfterWarpRounds =>
    LET pre == PreReduction
    IN  \A y \in 0 .. Launch.blockDim[2] - 1 :
          LET agg == GroupTriple(pre, y)
          IN  \A x \in 0 .. WarpSize - 1 : blk.regs[y * WarpSize + x] = agg

\* a row of 133 channels on 2 lane-groups: the lanes of group 0 hold a triple
\* of 128 values, the lanes of group 1 one of 5 values
C15_Witness ==
  /\ blk.pc = "store"
  /\ blk.l = 1
  /\ Launch.args.nchannel = 133
  /\ BlockBid = 1
  /\ blk.regs[5].count = R(128)
  /\ blk.regs[5] = blk.regs[31]
  /\ blk.regs[40].count = R(5)

\* the lanes of the running group have read the broadcast slot
AfterBroadcast == blk.pc = "write" /\ Launch.blockDim[2] >= 2

\* C16: with blockDim.y >= 2, after the halving loop and the final barrier
\* every lane of the block reads the same mean and M2, those of the merge of
\* the triples of all lane-groups, each merged once (M2 is divided by nchannel
\* as it is read).
C16_BlockReduceBroadcast ==
  AfterBroadcast =>
    LET agg == MergeGroups(PreReduction, 0, Launch.blockDim[2], ZeroTriple)
    IN  /\ agg.count = R(Launch.args.nchannel)
        /\ blk.buf[MeanBufAt(Launch.blockDim[2])] = agg.mean
        /\ blk.buf[Sigma2BufAt(Launch.blockDim[2])] = agg.sigma2
        /\ \A tid \in 0 .. NThread(blk.k) - 1 :
             /\ blk.regs[tid].mean = agg.mean
             /\ blk.regs[tid].sigma2 = RDiv(agg.sigma2, R(Launch.args.nchannel))

\* row 1 of 133 channels: lane 63 holds what lane 0 holds, the mean of slot 0
C16_Witness ==
  /\ blk.pc = "write"
  /\ Launch.blockDim[2] = 2
  /\ Launch.args.nchannel = 133
  /\ BlockBid = 1
  /\ blk.buf[0] # "uninit"
  /\ blk.regs[63].mean = blk.buf[0]
  /\ blk.regs[63].sigma2 = blk.regs[0].sigma2

(* ------------- the shared scratch, lane by lane between barriers -------- *)
\* what a lane does to the scratch: a store, a load, or __syncthreads()
Store(slot) == [op |-> "w", slot |-> slot]

Load(slot) == [op |-> "r", slot |-> slot]

SyncThreads == [op |-> "bar", slot |-> -1]

\* ForwardIteration without the barrier between the stores and the merge
ForwardIteration_NoStoreBarrier(x, y, offset, bdimy) ==
  (IF x = 0 /\ y >= offset /\ y < 2 * offset
   THEN << Store(MeanBufAt(bdimy) + y - offset), Store(Sigma2BufAt(bdimy) + y - offset),
           Store(CountBufAt(bdimy) + y - offset) >>
   ELSE << >>)
  \o (IF x = 0 /\ y < offset
      THEN << Load(MeanBufAt(bdimy) + y), Load(Sigma2BufAt(bdimy) + y),
              Load(CountBufAt(bdimy) + y) >>
      ELSE << >>)
  \o << SyncThreads >>

\* lines 191-205: one iteration of the halving loop of the forward kernel, as
\* the lane (x, y) runs it
ForwardIteration(x, y, offset, bdimy) ==
  (IF x = 0 /\ y >= offset /\ y < 2 * offset
   THEN << Store(MeanBufAt(bdimy) + y - offset), Store(Sigma2BufAt(bdimy) + y - offset),
           Store(CountBufAt(bdimy) + y - offset) >>
   ELSE << >>)
  \o << SyncThreads >>
  \o (IF x = 0 /\ y < offset
      THEN << Load(MeanBufAt(bdimy) + y), Load(Sigma2BufAt(bdimy) + y),
              Load(CountBufAt(bdimy) + y) >>
      ELSE << >>)
  \o << SyncThreads >>

RECURSIVE ForwardLoop(_, _, _, _)
\* for (int offset = blockDim.y / 2; offset > 0; offset /= 2)
ForwardLoop(x, y, offset, bdimy) ==
  IF offset > 0
  THEN ForwardIteration(x, y, offset, bdimy) \o ForwardLoop(x, y, offset \div 2, bdimy)
  ELSE << >>

\* lines 182-214: the scratch accesses and barriers of the lane (x, y)
ForwardScratchProgram(x, y, bdimy) ==
  IF bdimy = 1 THEN << >>
  ELSE ForwardLoop(x, y, bdimy \div 2, bdimy)
       \o (IF x = 0 /\ y = 0
           THEN << Store(MeanBufAt(bdimy)), Store(Sigma2BufAt(bdimy)) >>
           ELSE << >>)
       \o << SyncThreads, Load(MeanBufAt(bdimy)), Load(Sigma2BufAt(bdimy)) >>

\* DataIteration with the first barrier inside the branch of the lanes that store
DataIteration_BarrierInBranch(x, y, offset, bdim) ==
  (IF y >= offset /\ y < 2 * offset
   THEN << Store(Sum0BufAt(bdim) + (y - offset) * bdim[1] + x),
           Store(Sum1BufAt(bdim) + (y - offset) * bdim[1] + x), SyncThreads >>
   ELSE << >>)
  \o (IF y < offset
      THEN << Load(Sum0BufAt(bdim) + y * bdim[1] + x),
              Load(Sum1BufAt(bdim) + y * bdim[1] + x) >>
      ELSE << >>)
  \o << SyncThreads >>

\* lines 464-476: one iteration of the halving loop of the data-gradient kernel
DataIteration(x, y, offset, bdim) ==
  (IF y >= offset /\ y < 2 * offset
   THEN << Store(Sum0BufAt(bdim) + (y - offset) * bdim[1] + x),
           Store(Sum1BufAt(bdim) + (y - offset) * bdim[1] + x) >>
   ELSE << >>)
  \o << SyncThreads >>
  \o (IF y < offset
      THEN << Load(Sum0BufAt(bdim) + y * bdim[1] + x),
              Load(Sum1BufAt(bdim) + y * bdim[1] + x) >>
      ELSE << >>)
  \o << SyncThreads >>

RECURSIVE DataLoop(_, _, _, _)
DataLoop(x, y, offset, bdim) ==
  IF offset > 0
  THEN DataIteration(x, y, offset, bdim) \o DataLoop(x, y, offset \div 2, bdim)
  ELSE << >>

\* lines 461-487: the scratch accesses and barriers of the lane (x, y)
DataScratchProgram(x, y, bdim) ==
  IF bdim[2] > 1
  THEN DataLoop(x, y, bdim[2] \div 2, bdim)
       \o (IF y = 0
           THEN << Store(Sum0BufAt(bdim) + x), Store(Sum1BufAt(bdim) + x) >>
           ELSE << >>)
       \o << SyncThreads >>
       \o (IF y # 0
           THEN << Load(Sum0BufAt(bdim) + x), Load(Sum1BufAt(bdim) + x) >>
           ELSE << >>)
  ELSE << >>

\* the program of lane tid of a block of the launch la
ScratchProgram(la, tid) ==
  IF la.kernel = "LayerNormFusedForwardKernelContig"
  THEN ForwardScratchProgram(ThreadIdxX(tid), ThreadIdxY(tid), la.blockDim[2])
  ELSE DataScratchProgram(ThreadIdxX(tid), ThreadIdxY(tid), la.blockDim)

\* rows of one lane-group and of two
ScratchChannels == {5, 33}

\* the launches of the forward kernel and of the data-gradient kernel the host
\* functions make for one row
ScratchLaunches ==
  UNION {
    {LayerNormGPUContig(<<c>>, ForwardMemory(<<c>>, 0, {}), R(1), {}).launches}
      \cup {LayerNormGradGPUContig(<<c>>, BackwardMemory(<<c>>, 0),
                                   [i \in 0 .. 2 |-> IF i = 0 THEN kWriteTo ELSE kNullOp],
                                   {}, h).launches : h \in StreamHandles}
    : c \in ScratchChannels}

\* a block of a launch runs; two of its lanes, a < b, are followed through the
\* reduction, blk.regs holding the instruction each is at and blk.ld the
\* accesses made since the last barrier
InitScratch ==
  \E ls \in ScratchLaunches :
    \E k \in 1 .. Len(ls) :
      \E b \in 0 .. ls[k].blockDim[1] * ls[k].blockDim[2] - 1 :
        \E a \in 0 .. b - 1 :
          /\ ls[k].kernel \in {"LayerNormFusedForwardKernelContig",
                               "LayerNormFusedBackwardKernel_Data"}
          /\ shape = <<ls[k].args.nchannel>>
          /\ eps = R(1)
          /\ mem = << >>
          /\ call = NoCall
          /\ status = "returned"
          /\ trace = << >>
          /\ stream = ls
          /\ done = {}
          /\ blk = [NoBlock EXCEPT !.k = k, !.pc = "lanes", !.warps = <<a, b>>,
                                   !.regs = <<1, 1>>, !.ld = {}]
          /\ writes = << >>

\* one of the two lanes makes its next access to the scratch
LaneAccessStep ==
  /\ blk.pc = "lanes"
  /\ \E i \in 1 .. 2 :
       LET prog == ScratchProgram(Launch, blk.warps[i])
           pc   == blk.regs[i]
       IN  /\ pc <= Len(prog)
           /\ prog[pc].op # "bar"
           /\ blk' = [blk EXCEPT !.regs = [blk.regs EXCEPT ![i] = pc + 1],
                                 !.ld = blk.ld \cup {[lane |-> blk.warps[i], op |-> prog[pc].op,
                                                      slot |-> prog[pc].slot]}]
  /\ UNCHANGED <<shape, eps, mem, call, status, trace, stream, done, writes>>

\* every lane of the block has arrived at __syncthreads(): all go on
BarrierStep ==
  /\ blk.pc = "lanes"
  /\ \A i \in 1 .. 2 :
       /\ blk.regs[i] <= Len(ScratchProgram(Launch, blk.warps[i]))
       /\ ScratchProgram(Launch, blk.warps[i])[blk.regs[i]].op = "bar"
  /\ blk' = [blk EXCEPT !.regs = <<blk.regs[1] + 1, blk.regs[2] + 1>>, !.ld = {}]
  /\ UNCHANGED <<shape, eps, mem, call, status, trace, stream, done, writes>>

NextScratch ==
  \/ LaneAccessStep
  \/ BarrierStep

SpecScratch == InitScratch /\ [][NextScratch]_vars

\* C17: in the group reductions of the forward kernel and of the
\* data-gradient kernel, under every interleaving of two lanes between
\* barriers, no slot of the scratch is written by one lane and read or
\* written by another without a barrier between the two accesses.
C17_NoScratchRace ==
  blk.pc = "lanes" =>
    \A p \in blk.ld, q \in blk.ld :
      (p.lane # q.lane /\ p.slot = q.slot) => (p.op = "r" /\ q.op = "r")

\* forward kernel, lanes (0, 0) and (0, 1): after the barrier that ends the
\* last iteration lane (0, 0) has made the broadcast stores, lane (0, 1) waits
C17_Witness ==
  /\ blk.pc = "lanes"
  /\ Launch.kernel = "LayerNormFusedForwardKernelContig"
  /\ blk.warps = <<0, WarpSize>>
  /\ blk.ld = {[lane |-> 0, op |-> "w", slot |-> 0], [lane |-> 0, op |-> "w", slot |-> 1]}
  /\ ScratchProgram(Launch, WarpSize)[blk.regs[2]] = SyncThreads

(* ------------------------ the saved statistics ------------------------- *)
\* C18: in one forward invocation mean_data[b] and std_data[b] of every row
\* b < nbatch are each stored exactly once, when the group of row b ends, by
\* the lane (threadIdx.x = 0, threadIdx.y = 0) alone; the groups that store
\* have a row below nbatch, and the two buffers have no other entry stored to.
C18_StatisticsStoredOnce ==
  (blk.pc = "idle" /\ Len(stream) = 1) =>
    /\ StatLanes(NThread(1)) = {0}
    /\ ForwardRowsDone \subseteq 0 .. NBatch - 1
    /\ \A b \in DOMAIN writes.mean_data :
         writes.mean_data[b] = IF b \in ForwardRowsDone THEN 1 ELSE 0
    /\ \A b \in DOMAIN writes.std_data :
         writes.std_data[b] = IF b \in ForwardRowsDone THEN 1 ELSE 0

\* two rows of 133 channels on blocks of two lane-groups: row 1 is done, its
\* statistics stored once, row 0 is not
C18_Witness ==
  /\ shape = <<2, 133>>
  /\ blk.pc = "idle"
  /\ ForwardRowsDone = {1}
  /\ writes.mean_data[1] = 1 /\ writes.std_data[1] = 1
  /\ writes.mean_data[0] = 0 /\ writes.std_data[0] = 0
  /\ mem.mean_data[1] = NaiveMean(mem.in_data, 1, 133)

(* ------------------------- the grid of a launch ------------------------ *)
\* numbers of rows: a few, the largest one-dimensional grid, and a
\* two-dimensional grid with more blocks than rows
GridBatches == (1 .. MaxBatch) \cup {kMaxGridDim, kMaxGridDim + 2}

\* the launches of the forward kernel and of the data-gradient kernel the host
\* functions make for nbatch rows of one channel
GridLaunches(nbatch) ==
  {LayerNormGPUContig(<<nbatch, 1>>, ForwardMemory(<<nbatch, 1>>, 0, {}), R(1), {}).launches,
   LayerNormGradGPUContig(<<nbatch, 1>>, BackwardMemory(<<nbatch, 1>>, 0),
                          [i \in 0 .. 2 |-> IF i = 0 THEN kWriteTo ELSE kNullOp],
                          {}, 0).launches}

\* a kernel has been launched on nbatch rows; the buffers are not looked at
InitGrid ==
  \E nbatch \in GridBatches :
    \E ls \in GridLaunches(nbatch) :
      /\ Len(ls) = 1
      /\ shape = <<nbatch, 1>>
      /\ eps = R(1)
      /\ mem = << >>
      /\ call = NoCall
      /\ status = "returned"
      /\ trace = << >>
      /\ stream = ls
      /\ done = {}
      /\ blk = [NoBlock EXCEPT !.k = 1, !.pc = "grid"]
      /\ writes = << >>

\* lines 158-164, 426-428: a block computes bid and tests bid < nbatch; with
\* bid < nbatch it goes on to the row bid, its loads, stores and barriers,
\* otherwise it is at the end of the kernel
BlockEntryStep ==
  /\ blk.pc = "grid"
  /\ \E bx \in 0 .. Launch.gridDim[1] - 1, by \in 0 .. Launch.gridDim[2] - 1 :
       blk' = [blk EXCEPT !.bx = bx, !.by = by,
                          !.pc = IF Bid(blk.k, bx, by) < Launch.args.nbatch
                                 THEN "row" ELSE "exit",
                          !.l = Bid(blk.k, bx, by)]
  /\ UNCHANGED <<shape, eps, mem, call, status, trace, stream, done, writes>>

\* the block ends
BlockEndStep ==
  /\ blk.pc \in {"row", "exit"}
  /\ blk' = [blk EXCEPT !.bx = 0, !.by = 0, !.pc = "grid", !.l = 0]
  /\ UNCHANGED <<shape, eps, mem, call, status, trace, stream, done, writes>>

NextGrid ==
  \/ BlockEntryStep
  \/ BlockEndStep

SpecGrid == InitGrid /\ [][NextGrid]_vars

\* the values of bid over the blocks of the launch
GridBids ==
  {Bid(blk.k, bx, by) : bx \in 0 .. Launch.gridDim[1] - 1, by \in 0 .. Launch.gridDim[2] - 1}

\* C19: with the grid of LayerNormGPUContig and LayerNormGradGPUContig (nbatch
\* by 1 when nbatch <= kMaxGridDim, otherwise ceil(nbatch / kBaseGridNum) by
\* kBaseGridNum), no two blocks have the same bid, every value in [0, nbatch)
\* is the bid of a block, and a block with bid >= nbatch goes to the end of
\* the kernel without a memory access or a barrier.
C19_GridCoversRows ==
  LET nbatch == Launch.args.nbatch
      gx     == Launch.gridDim[1]
      gy     == Launch.gridDim[2]
  IN  /\ blk.pc = "grid" =>
           /\ IF nbatch <= kMaxGridDim
              THEN gx = nbatch /\ gy = 1
              ELSE gy = kBaseGridNum /\ (gx - 1) * kBaseGridNum < nbatch
                   /\ nbatch <= gx * kBaseGridNum
           /\ Cardinality(GridBids) = gx * gy
           /\ 0 .. nbatch - 1 \subseteq GridBids
      /\ blk.pc = "row" => (blk.l = BlockBid /\ BlockBid >= 0 /\ BlockBid < nbatch)
      /\ blk.pc = "exit" => BlockBid >= nbatch

\* 65537 rows on a grid of 65 by 1024: the last block has bid 66559 and is at
\* the end of the data-gradient kernel
C19_Witness ==
  /\ Launch.kernel = "LayerNormFusedBackwardKernel_Data"
  /\ Launch.args.nbatch = 65537
  /\ Launch.gridDim = <<65, 1024>>
  /\ blk.bx = 64 /\ blk.by = 1023
  /\ blk.l = 66559
  /\ blk.pc = "exit"

(* ------------------ the stores of the parameter gradients -------------- *)
\* C20: once the block of LayerNormFusedBackwardKernel_GammaBeta has run, an
\* output in Overwrite mode (addto flag false, pointer not null) has had every
\* element c in [0, nchannel) assigned, whatever the mode of the other output.
C20_OverwriteAssignsEveryElement ==
  \A k \in GammaBetaDone :
    /\ (stream[k].args.gamma_grad # NULL /\ ~stream[k].addto.gamma) =>
         \A c \in 0 .. stream[k].args.nchannel - 1 : writes[stream[k].args.gamma_grad][c] >= 1
    /\ (stream[k].args.beta_grad # NULL /\ ~stream[k].addto.beta) =>
         \A c \in 0 .. stream[k].args.nchannel - 1 : writes[stream[k].args.beta_grad][c] >= 1

(* ----------------------- a skipped parameter gradient ------------------ *)
\* the memory the backward call started from
InitialMemory ==
  CHOOSE m \in {BackwardMemory(shape, p) : p \in {0, 2}} :
    m.in_data = mem.in_data /\ m.out_grad = mem.out_grad

\* the launch la with the output `which` requested as well, in mode addto
WithRequested(la, which, addto) ==
  IF which = "gamma"
  THEN [la EXCEPT !.args.gamma_grad = Dptr(mem, "gamma"), !.addto.gamma = addto]
  ELSE [la EXCEPT !.args.beta_grad = Dptr(mem, "beta"), !.addto.beta = addto]

\* what the kernel launched as la leaves in the buffer ptr, whatever the reads
\* beyond the buffers return and the identifiers of lines 396 and 405 hold
GammaBetaOutcomes(la, ptr) ==
  LET lanes == GammaBetaLanes(la.blockDim[1] * la.blockDim[2], la.args.nchannel)
      m0    == InitialMemory
  IN  {GammaBetaBlock(m0, la, lanes, ng, nb, g)[ptr] :
         ng \in BOOLEAN, nb \in BOOLEAN, g \in GammaBetaGarbage(la)}

GammaBetaOneLane(nthread, nchannel) ==
  LET lanes == GammaBetaLanes(nthread, nchannel)
  IN  \A c \in 0 .. nchannel - 1 :
        /\ Cardinality(lanes[c][1] \cup lanes[c][2]) = 1
        /\ lanes[c][1] \cap lanes[c][2] = {}

\* C22: once the block of 32x4 lanes of LayerNormFusedBackwardKernel_GammaBeta
\* has run with LOAD_UNROLL = 4, every channel in [0, nchannel) has been
\* handled by exactly one lane, which summed it and stored it: every element
\* of a requested gradient has been stored exactly once.
C22_EveryChannelOneLane ==
  \A k \in GammaBetaDone :
    /\ stream[k].blockDim = <<32, 4>>
    /\ GammaBetaOneLane(NThread(k), stream[k].args.nchannel)
    /\ \A ptr \in {stream[k].args.gamma_grad, stream[k].args.beta_grad} \ {NULL} :
         \A c \in 0 .. stream[k].args.nchannel - 1 : writes[ptr][c] = 1

\* the part of C22 about the lanes alone
C22_LanesPartitionChannels ==
  \A k \in GammaBetaDone : GammaBetaOneLane(NThread(k), stream[k].args.nchannel)

(* --------------------- the buffers the backward writes ----------------- *)
\* the outputs of LayerNormGradGPUContig
GradOutputs == {"data_grad", "gamma_grad", "beta_grad"}

\* C23: a backward call never writes the saved mean, the saved std, gamma,
\* the input data or out_grad: every store of the call goes to data_grad,
\* gamma_grad or beta_grad, and the other buffers keep their contents.
C23_BackwardWritesOnlyGradients ==
  (GradGPUContigEntered \/ call.fn = "LayerNormGradCompute") =>
    \A name \in DOMAIN writes \ GradOutputs :
      /\ \A i \in DOMAIN writes[name] : writes[name][i] = 0
      /\ mem[name] = InitialMemory[name]

\* the part of C23 about the inputs other than gamma
C23_BackwardKeepsDataAndStatistics ==
  (GradGPUContigEntered \/ call.fn = "LayerNormGradCompute") =>
    \A name \in {"in_data", "out_grad", "mean_data", "std_data"} :
      /\ \A i \in DOMAIN writes[name] : writes[name][i] = 0
      /\ mem[name] = InitialMemory[name]

(* ------------------- the row an execution group writes ----------------- *)
\* the forward and the backward operator together, kernels included
NextKernels ==
  \/ CallLayerNormCompute
  \/ StartForwardBlock
  \/ ForwardWarpStep
  \/ ForwardShflStep
  \/ ForwardStoreStep
  \/ ForwardMergeStep
  \/ ForwardBroadcastStoreStep
  \/ ForwardBroadcastLoadStep
  \/ ForwardWriteStep
  \/ CallLayerNormGradCompute
  \/ CallLayerNormGradGPUContig
  \/ RunGammaBetaBlock
  \/ StartDataBlock
  \/ DataXorStep
  \/ DataStoreStep
  \/ DataMergeStep
  \/ DataBroadcastStoreStep
  \/ DataBroadcastLoadStep
  \/ DataMeanStep
  \/ DataLoadStep
  \/ DataWriteStep

SpecKernels == InitHost /\ [][NextKernels]_vars

\* the elements of the buffers the step stores to or changes
Touched ==
  {<<name, i>> \in UNION {{name} \X DOMAIN mem[name] : name \in DOMAIN mem} :
     writes'[name][i] # writes[name][i] \/ mem'[name][i] # mem[name][i]}

\* the elements the group of row bid of the running launch may write
OwnElements(bid) ==
  LET a == Launch.args
  IN  IF Launch.kernel = "LayerNormFusedForwardKernelContig"
      THEN ({a.out_data} \X (bid * a.nchannel .. (bid + 1) * a.nchannel - 1))
             \cup {<<a.mean_data, bid>>, <<a.std_data, bid>>}
      ELSE {a.data_grad} \X (bid * a.nchannel .. (bid + 1) * a.nchannel - 1)

\* C24: a step of the execution group that owns row b, in the forward kernel
\* and in the data-gradient kernel, stores only to the elements
\* [b * nchannel, (b + 1) * nchannel) of its output and, in the forward kernel,
\* to element b of mean_data and std_data: never to an element of another row.
C24_GroupWritesOwnRow ==
  [][(blk.pc # "idle" /\ Launch.kernel \in {"LayerNormFusedForwardKernelContig",
                                           "LayerNormFusedBackwardKernel_Data"})
       => Touched \subseteq OwnElements(BlockBid)]_vars

\* the group of row 1 of a data-gradient launch has stored its row before the
\* group of row 0 has run, and the group of row 0 is about to store
C24_Witness ==
  /\ blk.pc = "dwrite"
  /\ BlockBid = 0
  /\ <<blk.k, 1, 0>> \in done
  /\ \A c \in 0 .. Launch.args.nchannel - 1 :
       /\ writes[Launch.args.data_grad][Launch.args.nchannel + c] = 1
       /\ writes[Launch.args.data_grad][c] = 0

(* ------------------------ the stream of a launch ----------------------- *)
\* the elements of dynamic shared memory the kernel of launch la addresses
KernelSharedNeeded(la) ==
  IF la.kernel = "LayerNormFusedForwardKernelContig"
  THEN IF la.blockDim[2] > 1
       THEN CountBufAt(la.blockDim[2]) + la.blockDim[2] \div 2
       ELSE 0
  ELSE IF la.kernel = "LayerNormFusedBackwardKernel_Data"
  THEN DataSharedNeeded(la.blockDim)
  ELSE 0

OnContextStream(la) ==
  /\ la.stream = "ctx_stream"
  /\ la.nshared >= KernelSharedNeeded(la)

\* C25: every kernel the forward and the backward entry point launch is
\* enqueued on the stream of the operator context, ctx.get_stream<gpu>(),
\* with the dynamic shared memory its blocks address.
C25_LaunchesOnContextStream ==
  \A k \in 1 .. Len(stream) : OnContextStream(stream[k])

\* the part of C25 about the forward entry point
C25_ForwardLaunchOnContextStream ==
  \A k \in 1 .. Len(stream) :
    stream[k].kernel = "LayerNormFusedForwardKernelContig" => OnContextStream(stream[k])

(* ---------------------- rows without any variation --------------------- *)
\* s > 0, for a rational s or a pure surd s = b / sqrt(v)
SPos(s) == IF s[2] = R(0) THEN RPos(s[1]) ELSE s[1] = R(0) /\ RPos(s[2]) /\ RPos(s[3])

\* every element of row b of the input holds the same value
ConstantRow(b) ==
  \A c \in 0 .. NChannel - 1 : mem.in_data[b * NChannel + c] = mem.in_data[b * NChannel]

\* C26: with eps > 0, for every row, the constant rows and the rows of one
\* channel included, the forward kernel takes the square root of a value
\* variance + eps > 0, saves std_data[b] > 0 and ends without an error, and
\* on a constant row it leaves out_data[b, c] = beta[c], or 0 without beta.
C26_ConstantRowGivesShift ==
  /\ (blk.pc = "write" /\ Launch.kernel = "LayerNormFusedForwardKernelContig") =>
       \A tid \in DOMAIN blk.regs : RPos(RAdd(blk.regs[tid].sigma2, Launch.args.eps))
  /\ \A b \in ForwardRowsDone :
       /\ RPos(eps)
       /\ status # "fatal"
       /\ SPos(mem.std_data[b])
       /\ ConstantRow(b) =>
            \A c \in 0 .. NChannel - 1 :
              mem.out_data[b * NChannel + c]
                = SOfR(IF DOMAIN mem.beta = {} THEN R(0) ELSE mem.beta[c])

\* two constant rows of 33 channels have been normalised with a shift
\* that is not 0: the saved std is sqrt(0 + 1/4) = 1/2
C26_Witness ==
  /\ shape = <<2, 33>>
  /\ ConstantRow(0) /\ ConstantRow(1)
  /\ ForwardRowsDone = {0, 1}
  /\ DOMAIN mem.beta # {}
  /\ mem.std_data[1] = SOfR(<<1, 2>>)
  /\ mem.out_data[33 + 2] = SOfR(mem.beta[2])
  /\ mem.beta[2] # R(0)

\* a row of one channel has been normalised without a shift
C26_WitnessOneChannel ==
  /\ shape = <<2, 1>>
  /\ ForwardRowsDone = {0, 1}
  /\ DOMAIN mem.beta = {}
  /\ mem.out_data[1] = SOfR(R(0))
  /\ mem.in_data[1] # R(0)

(* ------------------------------ Executor ------------------------------- *)
\* the calls made on one executor
MaxCalls == 3

\* symbol.listArguments() and symbol.listAuxiliaryStates()
ArgNames == <<"data", "weight">>

AuxNames == <<"moving_mean">>

\* an Array[NDArray] reference: null, or an array of NDArray references
NullRef == [null |-> TRUE, elems |-> <<>>]

ArrayRef(elems) == [null |-> FALSE, elems |-> elems]

\* the NDArray objects of the executors explored
NDArrays == {"out1", "out2", "arg1", "arg2", "grad1", "grad2", "aux1"}

\* the executors explored: one or two outputs, with and without argument,
\* gradient and auxiliary arrays, a gradient array with a null element, made
\* by bind or by reshape
Executors ==
  [disposed   : {FALSE},
   reshaped   : BOOLEAN,
   outputs    : {ArrayRef(<<"out1">>), ArrayRef(<<"out1", "out2">>)},
   argArrays  : {NullRef, ArrayRef(<<"arg1", "arg2">>)},
   gradArrays : {NullRef, ArrayRef(<<"grad1", "grad2">>), ArrayRef(<<"grad1", NULL>>)},
   auxArrays  : {NullRef, ArrayRef(<<"aux1">>)}]

\* the objects of the heap: the executor, and every NDArray with its disposed
\* flag and the value it holds
Heap(ex) == [executor |-> ex, arrays |-> [a \in NDArrays |-> [disposed |-> FALSE, data |-> 0]]]

\* the number of invocations of super.dispose() and of dispose() of each NDArray
NoInvocations == [superDispose |-> 0, dispose |-> [a \in NDArrays |-> 0]]

\* NativeResource.isDisposed
isDisposed(obj) == obj.disposed

\* array.foreach(a => a.dispose()): the invocations of dispose() on NDArray a;
\* a null element of gradArrays is skipped
Invocations(ref, a) == Cardinality({i \in DOMAIN ref.elems : ref.elems[i] = a})

\* the invocations of dispose() on NDArray a by one pass through the body of
\* Executor.dispose
DisposeInvocations(ex, a) ==
  Invocations(ex.outputs, a)
    + (IF ex.reshaped /\ ~ex.argArrays.null THEN Invocations(ex.argArrays, a) ELSE 0)
    + (IF ex.reshaped /\ ~ex.gradArrays.null THEN Invocations(ex.gradArrays, a) ELSE 0)
    + (IF ex.reshaped /\ ~ex.auxArrays.null THEN Invocations(ex.auxArrays, a) ELSE 0)

\* Executor.dispose without the test of super.isDisposed
dispose_NoGuard(h, n) ==
  [heap |-> [h EXCEPT !.executor.disposed = TRUE,
                      !.arrays = [a \in NDArrays |->
                                    IF DisposeInvocations(h.executor, a) > 0
                                    THEN [@[a] EXCEPT !.disposed = TRUE]
                                    ELSE @[a]]],
   invocations |-> [superDispose |-> n.superDispose + 1,
                    dispose |-> [a \in NDArrays |->
                                   n.dispose[a] + DisposeInvocations(h.executor, a)]]]

\* Executor.dispose on the heap h, n counting the invocations; super.dispose()
\* and the dispose() of an NDArray set the disposed flag of their object
dispose(h, n) ==
  IF ~isDisposed(h.executor)
  THEN [heap |-> [h EXCEPT !.executor.disposed = TRUE,
                           !.arrays = [a \in NDArrays |->
                                         IF DisposeInvocations(h.executor, a) > 0
                                         THEN [@[a] EXCEPT !.disposed = TRUE]
                                         ELSE @[a]]],
        invocations |-> [superDispose |-> n.superDispose + 1,
                         dispose |-> [a \in NDArrays |->
                                        n.dispose[a] + DisposeInvocations(h.executor, a)]]]
  ELSE [heap |-> h, invocations |-> n]

\* Executor.getDict: (names zip ndarrays).toMap
getDict(names, ndarrays) ==
  [name \in {names[i] : i \in DOMAIN names \cap DOMAIN ndarrays.elems} |->
     ndarrays.elems[CHOOSE i \in DOMAIN names : names[i] = name]]

argDict(ex) == getDict(ArgNames, ex.argArrays)

auxDict(ex) == getDict(AuxNames, ex.auxArrays)

\* array.copyTo(other): other holds what array holds
copyTo(arrays, array, other) == [arrays EXCEPT ![other].data = array]

RECURSIVE CopyEach_NeverRaises(_, _, _, _, _)
\* CopyEach that goes on after a name that is not in the dictionary
CopyEach_NeverRaises(params, i, dict, arrays, allowExtraParams) ==
  IF i > Len(params) THEN [arrays |-> arrays, raised |-> FALSE]
  ELSE IF params[i].name \in DOMAIN dict
  THEN CopyEach_NeverRaises(params, i + 1, dict,
                            copyTo(arrays, params[i].array, dict[params[i].name]),
                            allowExtraParams)
  ELSE CopyEach_NeverRaises(params, i + 1, dict, arrays, allowExtraParams)

RECURSIVE CopyEach(_, _, _, _, _)
\* params.foreach { case (name, array) => ... } from the i-th pair on, in the
\* order of iteration of the map; require(allowExtraParams, ...) raises
CopyEach(params, i, dict, arrays, allowExtraParams) ==
  IF i > Len(params) THEN [arrays |-> arrays, raised |-> FALSE]
  ELSE IF params[i].name \in DOMAIN dict
  THEN CopyEach(params, i + 1, dict, copyTo(arrays, params[i].array, dict[params[i].name]),
                allowExtraParams)
  ELSE IF allowExtraParams
  THEN CopyEach(params, i + 1, dict, arrays, allowExtraParams)
  ELSE [arrays |-> arrays, raised |-> TRUE]

\* Executor.copyParamsFrom(argParams, auxParams, allowExtraParams)
copyParamsFrom(h, argParams, auxParams, allowExtraParams) ==
  LET args == CopyEach(argParams.elems, 1, argDict(h.executor), h.arrays, allowExtraParams)
  IN  IF args.raised \/ auxParams.null THEN args
      ELSE CopyEach(auxParams.elems, 1, auxDict(h.executor), args.arrays, allowExtraParams)

\* what the array provided under a name holds
Provided(name) ==
  LET names == <<"data", "weight", "extra", "moving_mean", "extra_aux">>
  IN  [name |-> name, array |-> CHOOSE v \in DOMAIN names : names[v] = name]

\* the maps handed to copyParamsFrom, in their order of iteration: at most
\* two pairs, of different names
ParamMaps(names) ==
  {ArrayRef(<<>>)}
    \cup {ArrayRef(<<Provided(a)>>) : a \in names}
    \cup {ArrayRef(<<Provided(p[1]), Provided(p[2])>>) :
            p \in {q \in names \X names : q[1] # q[2]}}

InitExecutor ==
  \E ex \in Executors :
    /\ shape = <<>>
    /\ eps = R(1)
    /\ mem = Heap(ex)
    /\ call = NoCall
    /\ status = "idle"
    /\ trace = <<>>
    /\ stream = <<>>
    /\ done = {}
    /\ blk = NoBlock
    /\ writes = NoInvocations

\* executor.dispose() is called
CallDispose ==
  /\ Len(trace) < MaxCalls
  /\ LET o == dispose(mem, writes)
     IN  /\ mem' = o.heap
         /\ writes' = o.invocations
  /\ call' = [fn |-> "dispose", wasDisposed |-> isDisposed(mem.executor),
              heap |-> mem, invocations |-> writes]
  /\ status' = "returned"
  /\ trace' = Append(trace, "dispose")
  /\ UNCHANGED <<shape, eps, stream, done, blk>>

\* executor.copyParamsFrom(argParams, auxParams, allowExtraParams) is called,
\* once, on an executor bound to its arrays
CallCopyParamsFrom ==
  /\ Len(trace) < MaxCalls
  /\ \A i \in DOMAIN trace : trace[i] # "copyParamsFrom"
  /\ ~mem.executor.argArrays.null
  /\ \E argParams \in ParamMaps({"data", "weight", "extra"}),
        auxParams \in {NullRef} \cup ParamMaps({"moving_mean", "extra_aux"}),
        allowExtraParams \in BOOLEAN :
       /\ auxParams.null \/ ~mem.executor.auxArrays.null
       /\ LET o == copyParamsFrom(mem, argParams, auxParams, allowExtraParams)
          IN  /\ mem' = [mem EXCEPT !.arrays = o.arrays]
              /\ status' = IF o.raised THEN "raised" ELSE "returned"
       /\ call' = [fn |-> "copyParamsFrom", argParams |-> argParams, auxParams |-> auxParams,
                   allowExtraParams |-> allowExtraParams, heap |-> mem]
  /\ trace' = Append(trace, "copyParamsFrom")
  /\ UNCHANGED <<shape, eps, stream, done, blk, writes>>

NextExecutor ==
  \/ CallDispose
  \/ CallCopyParamsFrom

SpecExecutor == InitExecutor /\ [][NextExecutor]_vars

\* the NDArray references of an array reference
Elements(ref) == {ref.elems[i] : i \in DOMAIN ref.elems} \ {NULL}

\* the arrays a reshaped executor owns besides its outputs
ReshapedArrays(ex) ==
  Elements(ex.argArrays) \cup Elements(ex.gradArrays) \cup Elements(ex.auxArrays)

\* C27: after any sequence of one or more calls of Executor.dispose on one
\* executor, super.dispose() has been invoked exactly once, and so has the
\* dispose() of each output array and, on a reshaped executor, of each
\* argument, gradient and auxiliary array; a call after the first changes
\* neither the heap nor these numbers.
C27_DisposeIsIdempotent ==
  LET ex == mem.executor
  IN  /\ (\E i \in DOMAIN trace : trace[i] = "dispose") =>
           /\ isDisposed(ex)
           /\ writes.superDispose = 1
           /\ \A a \in Elements(ex.outputs) : writes.dispose[a] = 1
           /\ \A a \in ReshapedArrays(ex) : writes.dispose[a] = IF ex.reshaped THEN 1 ELSE 0
           /\ \A a \in NDArrays : mem.arrays[a].disposed <=> writes.dispose[a] = 1
      /\ (call.fn = "dispose" /\ call.wasDisposed) =>
           mem = call.heap /\ writes = call.invocations

\* a reshaped executor with a null element in gradArrays disposed three times
C27_Witness ==
  /\ trace = <<"dispose", "dispose", "dispose">>
  /\ mem.executor.reshaped
  /\ mem.executor.gradArrays = ArrayRef(<<"grad1", NULL>>)
  /\ ~mem.executor.argArrays.null /\ ~mem.executor.auxArrays.null
  /\ writes.dispose = [a \in NDArrays |-> IF a \in {"out2", "grad2"} THEN 0 ELSE 1]
  /\ call.wasDisposed

\* the pairs handed to the last call of copyParamsFrom in the order the call
\* goes through them, each with the dictionary its name is looked up in
ProvidedPairs ==
  LET ex  == call.heap.executor
      arg == call.argParams.elems
      aux == call.auxParams.elems
  IN  [i \in 1 .. Len(arg) + Len(aux) |->
         IF i <= Len(arg) THEN [pair |-> arg[i], dict |-> argDict(ex)]
         ELSE [pair |-> aux[i - Len(arg)], dict |-> auxDict(ex)]]

\* the i-th provided name is in neither dictionary of its kind
Absent(i) == ProvidedPairs[i].pair.name \notin DOMAIN ProvidedPairs[i].dict

\* the pairs the call gets through: all of them, or those before the first
\* absent name when extra parameters are not allowed
PairsDone ==
  IF call.allowExtraParams \/ \A i \in DOMAIN ProvidedPairs : ~Absent(i)
  THEN DOMAIN ProvidedPairs
  ELSE {i \in DOMAIN ProvidedPairs : \A j \in 1 .. i : ~Absent(j)}

\* C28: Executor.copyParamsFrom with allowExtraParams = true does not raise
\* for a provided name that is in neither argDict nor auxDict and copies every
\* provided array whose name is in its dictionary; with allowExtraParams =
\* false it raises at the first provided name that is absent, the arrays
\* provided before that name having been copied and no other array changed.
C28_CopyParamsFromExtraNames ==
  call.fn = "copyParamsFrom" =>
    /\ (trace[Len(trace)] = "copyParamsFrom") =>
         status = IF PairsDone = DOMAIN ProvidedPairs THEN "returned" ELSE "raised"
    /\ \A a \in NDArrays :
         LET from == {i \in PairsDone : ~Absent(i) /\ ProvidedPairs[i].dict[ProvidedPairs[i].pair.name] = a}
         IN  IF from = {} THEN mem.arrays[a].data = call.heap.arrays[a].data
             ELSE \A i \in from : mem.arrays[a].data = ProvidedPairs[i].pair.array

\* allowExtraParams = false: the array provided for weight has been copied, the
\* call has raised at the name extra, and the auxiliary state provided has not
\* been looked at
C28_Witness ==
  /\ call.fn = "copyParamsFrom"
  /\ ~call.allowExtraParams
  /\ call.argParams = ArrayRef(<<Provided("weight"), Provided("extra")>>)
  /\ call.auxParams = ArrayRef(<<Provided("moving_mean")>>)
  /\ status = "raised"
  /\ mem.arrays["arg2"].data = Provided("weight").array
  /\ mem.arrays["arg1"].data = 0
  /\ mem.arrays["aux1"].data = 0

\* allowExtraParams = true: extra names among the arguments and the auxiliary
\* states, every array of a known name copied
C28_WitnessAllowed ==
  /\ call.fn = "copyParamsFrom"
  /\ call.allowExtraParams
  /\ call.argParams = ArrayRef(<<Provided("extra"), Provided("data")>>)
  /\ call.auxParams = ArrayRef(<<Provided("extra_aux"), Provided("moving_mean")>>)
  /\ status = "returned"
  /\ mem.arrays["arg1"].data = Provided("data").array
  /\ mem.arrays["aux1"].data = Provided("moving_mean").array

(* ------------------ the channels a lane accumulates -------------------- *)
\* row lengths around one chunk, one lane-group, the change of the launch
\* shape, a chunk of every lane of 32x2 and the second chunk of a lane
LaneChannels == (1 .. 9) \cup (31 .. 33) \cup (127 .. 133) \cup (255 .. 261)

\* what lies behind the row in memory
BehindRow == R(2)

\* the row that holds 1 at channel c and 0 at the other channels, with the
\* four elements that follow it in memory
IndicatorRow(nchannel, c) ==
  Force([i \in 0 .. nchannel + 3 |->
           IF i >= nchannel THEN BehindRow ELSE IF i = c THEN R(1) ELSE R(0)])

\* the forward kernel has been launched on one row of nchannel channels
InitLanes ==
  \E nchannel \in LaneChannels : \E c \in 0 .. nchannel - 1 :
    /\ shape = <<1, nchannel>>
    /\ eps = R(1)
    /\ mem = [in_data |-> IndicatorRow(nchannel, c)]
    /\ call = NoCall
    /\ status = "returned"
    /\ trace = << >>
    /\ stream = LayerNormGPUContig(<<1, nchannel>>, ForwardMemory(<<1, nchannel>>, 0, {}),
                                   R(1), {}).launches
    /\ done = {}
    /\ blk = [NoBlock EXCEPT !.k = 1, !.pc = "lanes", !.l = c]
    /\ writes = << >>

\* lines 160-168: every lane of the block calls BlockWelfordOnlineSum on the row
BlockWelfordStep ==
  /\ blk.pc = "lanes"
  /\ blk' = [blk EXCEPT
               !.pc = "summed",
               !.regs = Force([tid \in 0 .. NThread(blk.k) - 1 |->
                                 BlockWelfordOnlineSum(tid, NThread(blk.k), mem.in_data,
                                                       Launch.args.nchannel, ZeroTriple)])]
  /\ UNCHANGED <<shape, eps, mem, call, status, trace, stream, done, writes>>

NextLanes == BlockWelfordStep

SpecLanes == InitLanes /\ [][NextLanes]_vars

\* the sum of the values lane tid has accumulated: with the row that holds 1
\* at channel c, the number of times the lane accumulated channel c
LaneSum(tid) == RMul(blk.regs[tid].mean, blk.regs[tid].count)

\* C29: in BlockWelfordOnlineSum, for the block of 32 lanes of a row of at
\* most 32 channels and the block of 64 lanes of a longer row, the two loops
\* make every channel accumulated by exactly one lane, exactly once, the
\* lanes accumulate nchannel values in all and read no element from index
\* nchannel on.
C29_EveryChannelOneLaneOnce ==
  blk.pc = "summed" =>
    LET nchannel == Launch.args.nchannel
        lanes    == 0 .. NThread(blk.k) - 1
    IN  /\ NThread(blk.k) = IF nchannel <= 32 THEN 32 ELSE 64
        /\ \E owner \in lanes :
             /\ LaneSum(owner) = R(1)
             /\ \A tid \in lanes \ {owner} : LaneSum(tid) = R(0)
        /\ RSum(Force([tid \in lanes |-> blk.regs[tid].count]), 0, NThread(blk.k)) = R(nchannel)

\* a row of 261 channels: lane 1 has accumulated channels 4..7 and, in the
\* last loop, channel 260; lane 0 two chunks
C29_Witness ==
  /\ blk.pc = "summed"
  /\ Launch.args.nchannel = 261
  /\ blk.l = 260
  /\ LaneSum(1) = R(1)
  /\ blk.regs[1].count = R(5)
  /\ blk.regs[0].count = R(8)

(* ---------------- the lanes of the data-gradient kernel ---------------- *)
\* lines 437-454: the channels a lane adds to its sums, in the unrolled loop
\* from l = LOAD_UNROLL * tid and in the loop that follows it
DataSummedBy(lane, nthread, nchannel) ==
  UNION {{l + i : i \in 0 .. LOAD_UNROLL - 1} :
           l \in UnrolledStarts(LOAD_UNROLL * DataTid(lane), nthread * LOAD_UNROLL, nchannel)}
    \cup (UnrolledEnd(LOAD_UNROLL * DataTid(lane), nthread * LOAD_UNROLL, nchannel)
            .. nchannel - 1)

\* the execution group of row b of launch la has run: every channel has been
\* added by one lane and every element of the row stored by one lane
DataRowPartitioned(la, b) ==
  LET nchannel == la.args.nchannel
      nthread  == la.blockDim[1] * la.blockDim[2]
  IN  \A c \in 0 .. nchannel - 1 :
        /\ Cardinality({lane \in 0 .. nthread - 1 :
                          c \in DataSummedBy(lane, nthread, nchannel)}) = 1
        /\ writes[la.args.data_grad][b * nchannel + c] = 1

\* the rows whose execution group of data-gradient launch k has run to its end
DataRowsDone(k) ==
  {Bid(k, d[2], d[3]) : d \in {e \in done : e[1] = k}} \cap (0 .. stream[k].args.nbatch - 1)

\* C30: in LayerNormFusedBackwardKernel_Data, with blocks of 32x1 and of 32x2
\* lanes, the lanes of the group of a row partition the channels: in the two
\* summation loops every channel is added by exactly one lane, and in the
\* write loop every data_grad[b, c] is stored by exactly one lane.
C30_DataLanesPartitionChannels ==
  \A k \in 1 .. Len(stream) :
    stream[k].kernel = "LayerNormFusedBackwardKernel_Data" =>
      \A b \in DataRowsDone(k) : DataRowPartitioned(stream[k], b)

\* the part of C30 about the blocks of 32x1 lanes
C30_OneLaneGroupPartitionsChannels ==
  \A k \in 1 .. Len(stream) :
    (stream[k].kernel = "LayerNormFusedBackwardKernel_Data" /\ stream[k].blockDim = <<32, 1>>) =>
      \A b \in DataRowsDone(k) : DataRowPartitioned(stream[k], b)

(* ------------- the reductions of the data-gradient kernel -------------- *)
\* the sums of the lanes of the running group before the reductions
DataPartials == DataAccumulate(mem, Launch.args, BlockBid, NThread(blk.k))

\* the plain sums of the partial sums of all lanes, each lane once
DataTotals ==
  LET pre == DataPartials
  IN  <<RSum(Force([lane \in DOMAIN pre |-> pre[lane][1]]), 0, NThread(blk.k)),
        RSum(Force([lane \in DOMAIN pre |-> pre[lane][2]]), 0, NThread(blk.k))>>

\* C31: in LayerNormFusedBackwardKernel_Data, after the XOR butterfly over the
\* masks blockDim.x / 2 .. 1 and the reduction over the lane-groups with its
\* broadcast, every lane of the execution group holds the same sum_val0 and
\* the same sum_val1: the plain sums of the partial sums of all lanes of the
\* group, each lane counted once.
C31_DataSumsAllReduced ==
  (blk.pc = "dmean" /\ Launch.kernel = "LayerNormFusedBackwardKernel_Data") =>
    LET total == DataTotals
    IN  \A lane \in DOMAIN blk.regs : blk.regs[lane] = total

\* the part of C31 about the launches whose shared memory covers the scratch
C31_DataSumsAllReducedWithScratch ==
  (/\ blk.pc = "dmean"
   /\ Launch.kernel = "LayerNormFusedBackwardKernel_Data"
   /\ Launch.nshared >= DataSharedNeeded(Launch.blockDim)) =>
    LET total == DataTotals
    IN  \A lane \in DOMAIN blk.regs : blk.regs[lane] = total

(* ----------------------- the barriers of a group ----------------------- *)
\* the lanes of a block are all scheduled: a lane that can go on does go on
SpecScratchFair == SpecScratch /\ WF_vars(NextScratch)

\* the barriers among the first n instructions of a program
BarriersIn(prog, n) == Cardinality({i \in 1 .. n : i <= Len(prog) /\ prog[i].op = "bar"})

\* the program of the i-th lane followed, and whether the lane is through it
LaneProgram(i) == ScratchProgram(Launch, blk.warps[i])

LaneEnded(i) == blk.regs[i] > Len(LaneProgram(i))

LaneAtBarrier(i) == ~LaneEnded(i) /\ LaneProgram(i)[blk.regs[i]].op = "bar"

GroupEnded == blk.pc = "lanes" /\ LaneEnded(1) /\ LaneEnded(2)

\* the two lanes run the same number of barriers, have passed the same number
\* of them, and none waits at a barrier the other one never arrives at
BarriersUniform ==
  blk.pc = "lanes" =>
    /\ BarriersIn(LaneProgram(1), Len(LaneProgram(1)))
         = BarriersIn(LaneProgram(2), Len(LaneProgram(2)))
    /\ BarriersIn(LaneProgram(1), blk.regs[1] - 1) = BarriersIn(LaneProgram(2), blk.regs[2] - 1)
    /\ \A i \in 1 .. 2 : ~(LaneAtBarrier(i) /\ LaneEnded(3 - i))

\* C32: in the forward kernel and in the data-gradient kernel any two lanes
\* of an execution group execute the same number of barriers in the same
\* order, so no lane waits forever at a barrier and the group runs to its end.
C32_BarriersUniformGroupEnds == []BarriersUniform /\ <>GroupEnded

\* the lanes (0, 0) and (0, 1) of a block of 32x2 lanes of the data-gradient
\* kernel are through their three barriers
C32_Witness ==
  /\ GroupEnded
  /\ Launch.kernel = "LayerNormFusedBackwardKernel_Data"
  /\ blk.warps = <<0, WarpSize>>
  /\ BarriersIn(LaneProgram(1), Len(LaneProgram(1))) = 3
  /\ BarriersIn(LaneProgram(2), blk.regs[2] - 1) = 3

(* --------------------- the extent of the scratch ----------------------- *)
\* the accesses the two lanes followed have made since the last barrier lie
\* inside the dynamic shared memory of the launch
AccessesInside == \A p \in blk.ld : p.slot >= 0 /\ p.slot < Launch.nshared

\* the regions of the scratch follow one another without overlap and end at
\* the number of elements the kernel needs: 3 * (blockDim.y / 2) in the forward
\* kernel, 2 * (blockDim.y / 2) * blockDim.x in the data-gradient kernel
RegionsApart ==
  LET bdim == Launch.blockDim
      half == bdim[2] \div 2
  IN  bdim[2] > 1 =>
        IF Launch.kernel = "LayerNormFusedForwardKernelContig"
        THEN /\ MeanBufAt(bdim[2]) = 0
             /\ MeanBufAt(bdim[2]) + half <= Sigma2BufAt(bdim[2])
             /\ Sigma2BufAt(bdim[2]) + half <= CountBufAt(bdim[2])
             /\ CountBufAt(bdim[2]) + half = KernelSharedNeeded(Launch)
             /\ KernelSharedNeeded(Launch) = 3 * half
        ELSE /\ Sum0BufAt(bdim) = 0
             /\ Sum0BufAt(bdim) + half * bdim[1] <= Sum1BufAt(bdim)
             /\ Sum1BufAt(bdim) + half * bdim[1] = KernelSharedNeeded(Launch)
             /\ KernelSharedNeeded(Launch) = 2 * half * bdim[1]

\* C33: every access to the shared scratch of the forward kernel and of the
\* data-gradient kernel lies inside the dynamic shared memory of the launch
\* LayerNormGPUContig / LayerNormGradGPUContig makes, and the regions of the
\* scratch (mean, M2, count; sum0, sum1) do not overlap.
C33_ScratchInsideSharedMemory ==
  blk.pc = "lanes" => AccessesInside /\ RegionsApart

\* the part of C33 about the forward kernel, and about the layout of the
\* scratch of both kernels
C33_ForwardScratchInsideSharedMemory ==
  blk.pc = "lanes" =>
    /\ Launch.kernel = "LayerNormFusedForwardKernelContig" => AccessesInside
    /\ RegionsApart

(* ------------------ the count of the forward aggregate ------------------ *)
\* the lanes of the running group that hold the fully reduced aggregate: every
\* lane after the warp rounds of a block of one lane-group, lane (0, 0) after
\* the halving loop of a block of several
AggregateLanes ==
  IF blk.pc = "shfl" THEN 0 .. NThread(blk.k) - 1
  ELSE IF blk.pc = "bstore" THEN {0}
  ELSE {}

\* C34: in the forward kernel the count of the fully reduced aggregate (after
\* the lane reduction of a block of one lane-group, after the group reduction
\* in the lane that writes the broadcast slot otherwise) is nchannel, for both
\* launch shapes, so M2 / nchannel is M2 / count.
C34_AggregateCountIsNChannel ==
  \A tid \in AggregateLanes :
    /\ Launch.kernel = "LayerNormFusedForwardKernelContig"
    /\ blk.regs[tid].count = R(Launch.args.nchannel)
    /\ RDiv(blk.regs[tid].sigma2, R(Launch.args.nchannel))
         = RDiv(blk.regs[tid].sigma2, blk.regs[tid].count)

\* row 1 of 133 channels on 2 lane-groups: lane (0, 0) is about to write the
\* broadcast slot and holds 133 values, lane (0, 1) still holds its group's 5
C34_Witness ==
  /\ blk.pc = "bstore"
  /\ Launch.blockDim[2] = 2
  /\ Launch.args.nchannel = 133
  /\ BlockBid = 1
  /\ blk.regs[0].count = R(133)
  /\ blk.regs[WarpSize].count = R(5)
  /\ blk.buf[CountBufAt(2)] = R(5)

\* a row of 3 channels on one lane-group: every lane holds 3 values after
\* the warp rounds, 29 of the lanes having read none
C34_WitnessOneGroup ==
  /\ blk.pc = "shfl"
  /\ Launch.blockDim[2] = 1
  /\ Launch.args.nchannel = 3
  /\ blk.regs[31].count = R(3)

(* ------------------- the forward call that asks for nothing ------------- *)
\* C35: LayerNormCompute<gpu> called with kNullOp on the output returns
\* without launching a kernel and without calling the general fallback, leaves
\* out_data, mean_data and std_data as they were, and does so before the axis
\* is validated.
C35_NullOpForwardDoesNothing ==
  (call.fn = "LayerNormCompute" /\ call.req[0] = kNullOp) =>
    /\ status = "returned"
    /\ trace = <<>>
    /\ stream = <<>>
    /\ blk = NoBlock /\ done = {}
    /\ mem = ForwardMemory(shape, 0, {})
    /\ writes = NoStores(mem)

\* a tensor of rank 2 with axis = 2, which CHECK(axis >= 0 && axis < ndim)
\* would refuse, and a buffer that is not contiguous
C35_Witness ==
  /\ call.fn = "LayerNormCompute"
  /\ call.req[0] = kNullOp
  /\ Len(shape) = 2
  /\ call.axis = 2
  /\ call.noncontig = {"out_data"}
  /\ status = "returned"

(* --------------------------- Executor.reshape -------------------------- *)
\* the executors of one behaviour: the one made by bind and those returned
\* by reshape
MaxExecutors == 2

\* the executor ex with the handle its constructor was given
WithHandle(ex, handle) ==
  [handle     |-> handle,
   disposed   |-> ex.disposed,
   reshaped   |-> ex.reshaped,
   outputs    |-> ex.outputs,
   argArrays  |-> ex.argArrays,
   gradArrays |-> ex.gradArrays,
   auxArrays  |-> ex.auxArrays]

\* what _LIB.mxExecutorReshape and, in the constructor of the new executor,
\* _LIB.mxExecutorOutputs hand back: a failure, or the handles of the outputs,
\* of the arguments, of their gradients (0 for an argument without gradient)
\* and of the auxiliary states
mxExecutorReshape ==
  {[rc |-> -1, outputs |-> <<>>, inArgs |-> <<>>, argGrads |-> <<>>, auxStates |-> <<>>]}
    \cup [rc        : {0},
          outputs   : {<<1>>, <<1, 2>>},
          inArgs    : {<<1, 2>>},
          argGrads  : {<<1, 2>>, <<1, 0>>, <<0, 0>>},
          auxStates : {<<>>, <<1>>}]

\* new NDArray(handle): the object made for a handle of each kind
NewNDArray(kind, handle) ==
  LET objects == [outputs    |-> <<"out1", "out2">>,
                  argArrays  |-> <<"arg1", "arg2">>,
                  gradArrays |-> <<"grad1", "grad2">>,
                  auxArrays  |-> <<"aux1">>]
  IN  objects[kind][handle]

\* Executor.reshape that marks the executor it is called on as well
reshape_MarksThis(hs, this, nat) ==
  IF nat.rc # 0 THEN [heaps |-> hs, raised |-> TRUE]
  ELSE
    LET argArrays  == [k \in DOMAIN nat.inArgs |-> NewNDArray("argArrays", nat.inArgs[k])]
        gradArrays == [k \in DOMAIN nat.argGrads |->
                         IF nat.argGrads[k] = 0 THEN NULL
                         ELSE NewNDArray("gradArrays", nat.argGrads[k])]
        auxArrays  == [k \in DOMAIN nat.auxStates |->
                         NewNDArray("auxArrays", nat.auxStates[k])]
        outputs    == [k \in DOMAIN nat.outputs |-> NewNDArray("outputs", nat.outputs[k])]
        executor   == [handle     |-> Len(hs) + 1,
                       disposed   |-> FALSE,
                       reshaped   |-> TRUE,
                       outputs    |-> ArrayRef(outputs),
                       argArrays  |-> ArrayRef(argArrays),
                       gradArrays |-> ArrayRef(gradArrays),
                       auxArrays  |-> ArrayRef(auxArrays)]
    IN  [heaps  |-> Append([hs EXCEPT ![this].executor.reshaped = TRUE], Heap(executor)),
         raised |-> FALSE]

\* Executor.reshape called on the executor hs[this], nat being what the
\* native library hands back: checkCall raises on a failure; otherwise a new
\* executor with new NDArray objects and reshaped = true joins the heaps
reshape(hs, this, nat) ==
  IF nat.rc # 0 THEN [heaps |-> hs, raised |-> TRUE]
  ELSE
    LET argArrays  == [k \in DOMAIN nat.inArgs |-> NewNDArray("argArrays", nat.inArgs[k])]
        gradArrays == [k \in DOMAIN nat.argGrads |->
                         IF nat.argGrads[k] = 0 THEN NULL
                         ELSE NewNDArray("gradArrays", nat.argGrads[k])]
        auxArrays  == [k \in DOMAIN nat.auxStates |->
                         NewNDArray("auxArrays", nat.auxStates[k])]
        outputs    == [k \in DOMAIN nat.outputs |-> NewNDArray("outputs", nat.outputs[k])]
        executor   == [handle     |-> Len(hs) + 1,
                       disposed   |-> FALSE,
                       reshaped   |-> TRUE,
                       outputs    |-> ArrayRef(outputs),
                       argArrays  |-> ArrayRef(argArrays),
                       gradArrays |-> ArrayRef(gradArrays),
                       auxArrays  |-> ArrayRef(auxArrays)]
    IN  [heaps |-> Append(hs, Heap(executor)), raised |-> FALSE]

\* one executor made by bind (reshaped = false), with its own NDArray objects
InitReshape ==
  \E ex \in {e \in Executors : ~e.reshaped} :
    /\ shape = <<>>
    /\ eps = R(1)
    /\ mem = <<Heap(WithHandle(ex, 1))>>
    /\ call = NoCall
    /\ status = "idle"
    /\ trace = <<>>
    /\ stream = <<>>
    /\ done = {}
    /\ blk = NoBlock
    /\ writes = <<NoInvocations>>

\* reshape is called on an executor that has not been disposed
CallReshape ==
  /\ Len(trace) < MaxCalls
  /\ Len(mem) < MaxExecutors
  /\ \E this \in DOMAIN mem, nat \in mxExecutorReshape :
       /\ ~isDisposed(mem[this].executor)
       /\ LET o == reshape(mem, this, nat)
          IN  /\ mem' = o.heaps
              /\ writes' = IF o.raised THEN writes ELSE Append(writes, NoInvocations)
              /\ done' = IF o.raised THEN done ELSE done \cup {Len(o.heaps)}
              /\ status' = IF o.raised THEN "raised" ELSE "returned"
       /\ call' = [fn |-> "reshape", this |-> this, heaps |-> mem, invocations |-> writes]
  /\ trace' = Append(trace, "reshape")
  /\ UNCHANGED <<shape, eps, stream, blk>>

\* dispose is called on one of the executors
CallDisposeOn ==
  /\ Len(trace) < MaxCalls
  /\ \E this \in DOMAIN mem :
       /\ LET o == dispose(mem[this], writes[this])
          IN  /\ mem' = [mem EXCEPT ![this] = o.heap]
              /\ writes' = [writes EXCEPT ![this] = o.invocations]
       /\ call' = [fn |-> "dispose", this |-> this, heaps |-> mem, invocations |-> writes]
  /\ status' = "returned"
  /\ trace' = Append(trace, "dispose")
  /\ UNCHANGED <<shape, eps, stream, done, blk>>

NextReshape ==
  \/ CallReshape
  \/ CallDisposeOn

SpecReshape == InitReshape /\ [][NextReshape]_vars

\* the NDArray objects of executor i on which dispose() has been invoked by
\* the calls of Executor.dispose so far
DisposedBy(i) == {a \in NDArrays : writes[i].dispose[a] > 0}

\* the last call was reshape
AfterReshape == call.fn = "reshape" /\ trace[Len(trace)] = "reshape"

\* C36: Executor.dispose disposes the argument, gradient and auxiliary arrays
\* only of an executor returned by reshape (reshaped = true), skipping the
\* null entries of the gradients; those of an executor not made by reshape
\* are left undisposed; the outputs are disposed in both cases. reshape leaves
\* the arrays, the handle and the reshaped flag of the executor it is called
\* on as they were.
C36_DisposeAndReshapeFrame ==
  /\ \A i \in DOMAIN mem :
       LET ex == mem[i].executor
       IN  /\ ex.reshaped <=> i \in done
           /\ DisposedBy(i) =
                IF ~isDisposed(ex) THEN {}
                ELSE IF ex.reshaped THEN Elements(ex.outputs) \cup ReshapedArrays(ex)
                ELSE Elements(ex.outputs)
           /\ \A a \in NDArrays : mem[i].arrays[a].disposed <=> a \in DisposedBy(i)
  /\ AfterReshape =>
       /\ SubSeq(mem, 1, Len(call.heaps)) = call.heaps
       /\ SubSeq(writes, 1, Len(call.heaps)) = call.invocations
       /\ mem[call.this].executor.handle = call.this
       /\ status = "returned" =>
            /\ Len(mem) = Len(call.heaps) + 1
            /\ mem[Len(mem)].executor.reshaped
            /\ mem[Len(mem)].executor.handle # mem[call.this].executor.handle
            /\ ~isDisposed(mem[Len(mem)].executor)
       /\ status = "raised" => Len(mem) = Len(call.heaps)

\* an executor made by bind with two arguments, two gradients and an auxiliary
\* state, and the executor reshape returned for it, with a null gradient:
\* both disposed, the first keeps its arrays, the second has disposed them
C36_Witness ==
  /\ trace = <<"reshape", "dispose", "dispose">>
  /\ Len(mem) = 2
  /\ isDisposed(mem[1].executor) /\ isDisposed(mem[2].executor)
  /\ ~mem[1].executor.reshaped /\ mem[2].executor.reshaped
  /\ mem[1].executor.gradArrays = ArrayRef(<<"grad1", "grad2">>)
  /\ ~mem[1].executor.argArrays.null /\ ~mem[1].executor.auxArrays.null
  /\ mem[2].executor.gradArrays = ArrayRef(<<"grad1", NULL>>)
  /\ DisposedBy(1) = {"out1"}
  /\ DisposedBy(2) = {"out1", "out2", "arg1", "arg2", "grad1"}

\* reshape has just returned: the executor it was called on is as it was
C36_WitnessReshape ==
  /\ trace = <<"reshape">>
  /\ status = "returned"
  /\ ~mem[1].executor.reshaped /\ ~isDisposed(mem[1].executor)
  /\ mem[1].executor.argArrays = ArrayRef(<<"arg1", "arg2">>)
  /\ mem[2].executor.reshaped
  /\ mem[2].executor.auxArrays = ArrayRef(<<>>)

=============================================================================
